---- MODULE Spec2Model ----
(***************************************************************************)
(* Project Pumpkin: batch run orchestration and ingestion.                 *)
(*                                                                         *)
(* The model covers the PostgreSQL schema and its counter trigger          *)
(* (db/init.sql), the database client (src/database/client.js), the        *)
(* ingestion module (src/database/ingest.js), the per-URL job              *)
(* (tests/test-helpers.js), the Playwright batch spec and the batch shell  *)
(* script (test-urls-parallel.sh) with its helper scripts.                 *)
(***************************************************************************)
EXTENDS Integers, Sequences, FiniteSets, TLC

\* ------------------------------------------------------------------ bounds
MaxUrls == 2        \* URL lines in tests/urls.txt
MaxWsLines == 1     \* whitespace-only lines in tests/urls.txt
MaxRuns == 2        \* rows of test_runs
MaxTests == 2       \* rows of url_tests
MaxCleanRuns == 2   \* consecutive executions of cleanup.js
MaxBulk == 2        \* tests handed to one bulkInsertDomainTests call
MaxEntries == 3     \* entries of one network.har
MaxTime == 2        \* milliseconds of the clock while the jobs start
MaxStamp == 2       \* latest timestamp (ms) of a navigation timing entry

\* ------------------------------------------------------- program constants
maxRetries == 5     \* client.js getConfig().maxRetries
retryDelay == 2     \* client.js getConfig().retryDelay, in seconds
connectionTimeout == 10  \* client.js connectionTimeoutMillis, in seconds
timeoutSeconds == 30     \* wait-for-db.js timeout_seconds as the script passes it
retryWait == 1      \* wait-for-db.js pause between two rounds, in seconds

Workers == {1, 2}   \* Playwright worker processes (--workers)
Importer == 0       \* a process calling bulkInsertDomainTests
Procs == Workers \cup {Importer}

RunStatus == {"RUNNING", "COMPLETED", "PARTIAL", "FAILED"}
Terminal == {"COMPLETED", "PARTIAL", "FAILED"}
TestStatus == {"PASSED", "FAILED", "TIMEOUT", "ERROR"}

\* ------------------------------------------------- strings, maps, parseInt
\* A JS string is a sequence of characters; the characters that matter are
\* the decimal digits 0..9, every other character is written 10.
NaN == -1

RECURSIVE NumberToString(_)
\* String(n) for a non-negative integer n (the key under which
\* statusCodeCounts[statusCode] is stored).
NumberToString(n) ==
  IF n < 10 THEN <<n>> ELSE Append(NumberToString(n \div 10), n % 10)

RECURSIVE parseDigits(_, _)
parseDigits(s, acc) ==
  IF s = << >> \/ Head(s) > 9 THEN acc
  ELSE parseDigits(Tail(s), acc * 10 + Head(s))

\* parseInt(code): the leading decimal digits, NaN when there are none.
parseInt(s) ==
  IF s = << >> \/ Head(s) > 9 THEN NaN ELSE parseDigits(s, 0)

EmptyMap == << >>

\* Characters other than digits and letters that the path code looks at.
Dot == 11
Slash == 12
Colon == 13

\* 'test-history', 'app' (the working directory /app), 'screenshot.png'.
TEST_HISTORY == [i \in 1..12 |-> 10]
AppDir == <<10, 10, 10>>
ScreenshotFile == <<10, 10, Dot, 10>>

\* A line of tests/urls.txt: http:// or https://, a host (written as a
\* number), with or without a trailing slash.
Url(secure, host, slash) ==
  (IF secure THEN <<10, 10, 10, 10, 10>> ELSE <<10, 10, 10, 10>>)
    \o <<Colon, Slash, Slash>> \o NumberToString(host)
    \o (IF slash THEN <<Slash>> ELSE << >>)

\* The j-th line of a urls.txt whose lines are https://1, https://2, ...
UrlOfLine(j) == Url(TRUE, j, FALSE)

\* .replace(/^https?:\/\//, '')
stripProtocol(url) ==
  IF Len(url) >= 7 /\ SubSeq(url, 1, 7) = <<10, 10, 10, 10, Colon, Slash, Slash>>
  THEN SubSeq(url, 8, Len(url))
  ELSE IF /\ Len(url) >= 8
          /\ SubSeq(url, 1, 8) = <<10, 10, 10, 10, 10, Colon, Slash, Slash>>
  THEN SubSeq(url, 9, Len(url))
  ELSE url

\* .replace(/\/$/, '')
stripTrailingSlash(s) ==
  IF s # << >> /\ s[Len(s)] = Slash THEN SubSeq(s, 1, Len(s) - 1) ELSE s

\* .replace(/[:/?#\[\]@!$&'()*+,;=]/g, '_')
replaceSpecial(s) ==
  [i \in DOMAIN s |-> IF s[i] \in {Colon, Slash} THEN 10 ELSE s[i]]

urlWithoutProtocol(url) ==
  replaceSpecial(stripTrailingSlash(stripProtocol(url)))

\* dirName = `${timestamp}__${urlWithoutProtocol}`.
DirName(timestamp, url) ==
  NumberToString(timestamp) \o <<10, 10>> \o urlWithoutProtocol(url)

\* screenshotPath = path.join(process.cwd(), 'test-history', dirName,
\* 'screenshot.png').
ScreenshotPath(dirName) ==
  <<Slash>> \o AppDir \o <<Slash>> \o TEST_HISTORY \o <<Slash>> \o dirName
    \o <<Slash>> \o ScreenshotFile

RECURSIVE splitFrom(_, _)
splitFrom(s, part) ==
  IF s = << >> THEN <<part>>
  ELSE IF Head(s) = Slash THEN <<part>> \o splitFrom(Tail(s), << >>)
  ELSE splitFrom(Tail(s), Append(part, Head(s)))

\* dbPath.split('/')
split(s) == splitFrom(s, << >>)

\* parts.indexOf(x), 0-based, -1 when absent.
indexOf(parts, x) ==
  IF \E i \in DOMAIN parts : parts[i] = x
  THEN (CHOOSE i \in DOMAIN parts :
          parts[i] = x /\ \A j \in 1..(i - 1) : parts[j] # x) - 1
  ELSE -1

\* extractDirNameFromPath(dbPath): the segment after 'test-history', or null
\* (written << >>: the caller skips null and '' alike).
extractDirNameFromPath(dbPath) ==
  LET parts == split(dbPath)
      testHistoryIndex == indexOf(parts, TEST_HISTORY)
  IN IF testHistoryIndex # -1 /\ Len(parts) > testHistoryIndex + 1
     THEN parts[testHistoryIndex + 2]
     ELSE << >>

RECURSIVE SumValues(_)
\* Sum of the values of a JS object used as a histogram.
SumValues(m) ==
  IF DOMAIN m = {} THEN 0
  ELSE LET k == CHOOSE x \in DOMAIN m : TRUE
       IN m[k] + SumValues([x \in DOMAIN m \ {k} |-> m[x]])

\* ------------------------------------------------------------------- state
VARIABLES
  dbUp,            \* the PostgreSQL server accepts connections and queries
  test_runs,       \* table test_runs: sequence of rows, id = index
  url_tests,       \* table url_tests: sequence of rows, id = index
  http_responses,  \* table http_responses: set of rows
  resource_types,  \* table resource_types: set of rows
  pending,         \* per process: the url_tests INSERT statement in flight
  client,          \* per process: client.js module state (pool, isConnected)
  autoCreatedTestRunId, \* per process: test-helpers.js module variable
  proc,            \* per process: position and locals of the current job
  sh,              \* the one invocation of the tooling: position and variables
  pw,              \* the Playwright run: next job to dispatch, failures
  bulk,            \* the importer's remaining tests and its count
  lastUpdate,      \* the last UPDATE test_runs statement the server ran
  fs,              \* test-history/: what each entry name is on disk
  contexts,        \* per worker: browser contexts opened and not yet closed
  rec,             \* the cleanup.js process: position and locals
  call             \* a call of a helper or of the API: arguments and result

vars == <<dbUp, test_runs, url_tests, http_responses, resource_types, pending,
          client, autoCreatedTestRunId, proc, sh, pw, bulk, lastUpdate, fs,
          contexts, rec, call>>

dbVars == <<test_runs, url_tests, http_responses, resource_types>>

RunIds == 1..Len(test_runs)
TestIds == 1..Len(url_tests)

\* Rows of url_tests that belong to run r (SELECT COUNT(*) ... WHERE
\* test_run_id = r).
TestsOfRunIn(tests, r) == {t \in DOMAIN tests : tests[t].test_run_id = r}

TestsOfRun(r) == TestsOfRunIn(url_tests, r)

\* ---------------------------------------------------------------- db/init.sql
\* A new test_runs row: status is the RUNNING the caller passes, counters and
\* duration take the column defaults.
NewRunRow(totalUrls, parallelWorkers, status) ==
  [total_urls |-> totalUrls, parallel_workers |-> parallelWorkers,
   duration_ms |-> 0, passed_count |-> 0, failed_count |-> 0,
   status |-> status]

\* The trigger without its status test: every insert counts as passed.
update_test_run_counts_noStatus(runs, newRow) ==
  [runs EXCEPT ![newRow.test_run_id].passed_count = @ + 1]

\* The trigger without its ELSE branch: a failed test is not counted.
update_test_run_counts_noElse(runs, newRow) ==
  IF newRow.status = "PASSED"
  THEN [runs EXCEPT ![newRow.test_run_id].passed_count = @ + 1]
  ELSE runs

\* Trigger function update_test_run_counts(): AFTER INSERT ON url_tests FOR
\* EACH ROW; returns table test_runs after the trigger's UPDATE.
update_test_run_counts(runs, newRow) ==
  IF newRow.status = "PASSED"
  THEN [runs EXCEPT ![newRow.test_run_id].passed_count = @ + 1]
  ELSE [runs EXCEPT ![newRow.test_run_id].failed_count = @ + 1]

\* The row lock the trigger's UPDATE takes on the run row is free for p when
\* no other process has an INSERT in flight for the same run.
RowLockFree(r, p) ==
  \A q \in Procs \ {p} :
     IF Len(pending[q]) = 0 THEN TRUE ELSE pending[q][1].test_run_id # r

\* Foreign key url_tests.test_run_id REFERENCES test_runs(id).
ForeignKeyOk(r) == r \in RunIds

\* ---------------------------------------------------- src/database/client.js
NoClient == [pool |-> FALSE, isConnected |-> FALSE, attempt |-> 0]

\* isDatabaseConnected() that only looks at the pool object.
isDatabaseConnected_poolOnly(c) == c.pool

\* isDatabaseConnected(): isConnected && pool !== null.
isDatabaseConnected(c) == c.isConnected /\ c.pool

\* initializePool(), up to the first connection attempt: returns at once when
\* a pool object exists, otherwise creates the pool and enters the retry loop.
initializePool(c) ==
  IF c.pool THEN c ELSE [c EXCEPT !.pool = TRUE, !.attempt = 1]

\* One iteration of initializePool()'s retry loop; up = the attempt connects.
connectAttempt(c, up) ==
  IF up THEN [c EXCEPT !.isConnected = TRUE, !.attempt = 0]
  ELSE IF c.attempt < maxRetries THEN [c EXCEPT !.attempt = @ + 1]
  ELSE [c EXCEPT !.isConnected = FALSE, !.attempt = 0]

\* query()'s catch block: a connection-class error (message contains
\* 'connection' or 'timeout') clears isConnected and calls initializePool();
\* the query is retried only if isConnected is set again, which the early
\* return of initializePool() never does.  The result is null either way.
queryError(c, connClass) ==
  IF connClass THEN initializePool([c EXCEPT !.isConnected = FALSE]) ELSE c

\* ---------------------------------------------------- src/database/ingest.js
\* An UPDATE that only leaves RUNNING (WHERE id = $3 AND status = 'RUNNING').
updateTestRun_strict(runs, testRunId, status, durationMs) ==
  IF testRunId \in DOMAIN runs /\ runs[testRunId].status = "RUNNING"
  THEN [runs EXCEPT ![testRunId].status = status,
                    ![testRunId].duration_ms = durationMs]
  ELSE runs

\* updateTestRun's UPDATE test_runs SET status, duration_ms WHERE id = $3.
updateTestRun(runs, testRunId, status, durationMs) ==
  IF testRunId \in DOMAIN runs
  THEN [runs EXCEPT ![testRunId].status = status,
                    ![testRunId].duration_ms = durationMs]
  ELSE runs

\* createTestRun's INSERT INTO test_runs ... VALUES ($1, $2, 'RUNNING', $4).
createTestRun(runs, totalUrls, parallelWorkers) ==
  Append(runs, NewRunRow(totalUrls, parallelWorkers, "RUNNING"))

\* The url_tests row insertDomainTest's INSERT builds from its arguments.
UrlTestRow(testRunId, url, meas) ==
  [test_run_id |-> testRunId, url |-> url, status |-> meas.testStatus,
   screenshot_path |-> meas.screenshotPath,
   http_response_codes |-> meas.httpResponseCodes,
   resources_by_type |-> meas.resourcesByType]

\* Rows insertHttpResponses adds: one (id, parseInt(code), count) per key.
insertHttpResponses(rows, domainTestId, httpResponseCodes) ==
  rows \cup { [url_test_id |-> domainTestId, status_code |-> parseInt(code),
               response_count |-> httpResponseCodes[code]] :
              code \in DOMAIN httpResponseCodes }

\* Rows insertResourceTypes adds: one (id, type, count) per key.
insertResourceTypes(rows, domainTestId, resourceTypes) ==
  rows \cup { [url_test_id |-> domainTestId, resource_type |-> type,
               resource_count |-> resourceTypes[type]] :
              type \in DOMAIN resourceTypes }

\* ------------------------------------------------------ processes and jobs
NoMeas == [testStatus |-> "PASSED", screenshotPath |-> << >>,
           httpResponseCodes |-> EmptyMap, resourcesByType |-> EmptyMap]

\* Timestamps of directory names: an earlier invocation's and this one's.
EarlierTime == 0
ThisTime == 1

\* Entry names under test-history/: the directories of the earlier test and
\* of this invocation's jobs, and a name that starts with a dot.
HiddenName == <<Dot, 10>>
FsNames ==
  {DirName(EarlierTime, UrlOfLine(1)), HiddenName}
    \cup {DirName(t, UrlOfLine(j)) : t \in ThisTime..MaxTime, j \in 1..MaxUrls}

\* What a name is on disk: nothing, a plain file, a directory without both
\* artifacts, a directory holding screenshot.png and network.har.
FsKinds == {"absent", "file", "empty", "full"}

\* fs.mkdir(testRunDir, { recursive: true })
mkdir(disk, name) ==
  IF disk[name] = "absent" THEN [disk EXCEPT ![name] = "empty"] ELSE disk

\* runWebsiteTest without context.close(): the context stays open.
closeContext_leak(n) == n

\* await context.close()
closeContext(n) == n - 1

IdleProc == [pc |-> "idle", url |-> 0, dir |-> << >>, testRunId |-> 0,
             meas |-> NoMeas,
             id |-> 0]

\* Measurements runWebsiteTest builds: testStatus is the literal 'PASSED';
\* a page without network activity and a page with some.
CapturedMeas ==
  { [testStatus |-> "PASSED", screenshotPath |-> << >>,
     httpResponseCodes |-> EmptyMap, resourcesByType |-> EmptyMap],
    [testStatus |-> "PASSED", screenshotPath |-> << >>,
     httpResponseCodes |->
       (NumberToString(200) :> 2) @@ (NumberToString(404) :> 1),
     resourcesByType |-> ("script" :> 1)] }

\* Test objects a caller can hand to bulkInsertDomainTests: any status.
ImportedMeas ==
  { [testStatus |-> s,
     screenshotPath |-> ScreenshotPath(DirName(EarlierTime, UrlOfLine(1))),
     httpResponseCodes |-> (NumberToString(200) :> 1),
     resourcesByType |-> ("img" :> 1)] : s \in TestStatus }

\* INSERT statements in flight (their rows count against the table bound).
InFlight == {p \in Procs : pending[p] # << >>}

\* wc -l style counting: the last line has no newline and is missed.
CountNonEmptyLines_newlines(urlLines, wsLines) ==
  IF urlLines + wsLines = 0 THEN 0 ELSE urlLines + wsLines - 1

\* TOTAL=$(grep -c . "$URLS_FILE"): every line holding at least one character
\* counts, a whitespace-only line included (the spec file trims and drops it).
CountNonEmptyLines(urlLines, wsLines) == urlLines + wsLines

\* The ways the tooling is invoked, one invocation at a time:
\*  batch  - test-urls-parallel.sh over a urls.txt with N URL lines and ws
\*           whitespace-only lines (TOTAL = grep -c .);
\*  direct - npx playwright test with TEST_RUN_ID absent (0) or preset;
\*  import - a program calling bulkInsertDomainTests(TEST_RUN_ID, tests);
\*  cli    - update-test-run.js TEST_RUN_ID STATUS run by hand.
Invocation(mode, pc, n, total, id, status) ==
  [mode |-> mode, pc |-> pc, N |-> n, TOTAL |-> total, TEST_RUN_ID |-> id,
   EXIT_CODE |-> 0, STATUS |-> status]

Invocations ==
  { Invocation("batch", "check", n, CountNonEmptyLines(n, ws), 0, "RUNNING") :
    n \in 0..MaxUrls, ws \in 0..MaxWsLines }
  \cup
  { Invocation("direct", "play", n, n, id, "RUNNING") :
    n \in 1..MaxUrls, id \in 0..MaxRuns }
  \cup
  { Invocation("import", "import", 0, 0, id, "RUNNING") : id \in 1..MaxRuns }
  \cup
  { Invocation("cli", "cli", 0, 0, id, status) :
    id \in 1..MaxRuns, status \in RunStatus }

\* The Playwright run before its first test: the spec file's tests are the
\* lines of urls.txt, and the clock new Date() reads.
NewPlaywright ==
  [next |-> 1, failed |-> FALSE, now |-> ThisTime,
   urls |-> [j \in 1..MaxUrls |-> UrlOfLine(j)]]

\* No helper or API call is being looked at.
NoCall == [fn |-> "none"]

\* No bulk insert has been called: domainTests, its length and `inserted`.
NoBulk == [tests |-> << >>, size |-> 0, inserted |-> 0]

\* What is kept of the cleanup.js run before this one; there was none.
NoPrev == [dryRun |-> TRUE, scanned |-> FALSE, deletedCount |-> 0,
           orphanedDirs |-> {}]

\* cleanup.js is not running.
RecOff == [pc |-> "off", dryRun |-> FALSE, client |-> NoClient,
           dbDirs |-> {}, gotRows |-> FALSE, scanned |-> FALSE,
           orphanedDirs |-> {},
           todo |-> {}, deletedCount |-> 0, run |-> 0, before |-> << >>,
           prev |-> NoPrev]

\* The database an invocation finds: empty (after db/init.sql), or holding
\* the run of an earlier batch over one URL that passed and was finalized.
EarlierTest ==
  UrlTestRow(1, 1, [testStatus |-> "PASSED",
                    screenshotPath |-> ScreenshotPath(DirName(EarlierTime, UrlOfLine(1))),
                    httpResponseCodes |-> (NumberToString(200) :> 2) @@
                                          (NumberToString(404) :> 1),
                    resourcesByType |-> ("script" :> 1)])

EarlierRun ==
  [update_test_run_counts(
     <<NewRunRow(1, Cardinality(Workers), "RUNNING")>>, EarlierTest)[1]
   EXCEPT !.status = "COMPLETED", !.duration_ms = 1]

Init ==
  /\ dbUp \in BOOLEAN
  /\ \/ /\ test_runs = << >>
        /\ url_tests = << >>
        /\ http_responses = {}
        /\ resource_types = {}
     \/ /\ test_runs = <<EarlierRun>>
        /\ url_tests = <<EarlierTest>>
        /\ http_responses = insertHttpResponses({}, 1, EarlierTest.http_response_codes)
        /\ resource_types = insertResourceTypes({}, 1, EarlierTest.resources_by_type)
  /\ pending = [p \in Procs |-> << >>]
  /\ client = [p \in Procs |-> NoClient]
  /\ autoCreatedTestRunId = [p \in Procs |-> 0]
  /\ proc = [p \in Procs |-> IdleProc]
  /\ sh \in Invocations
  /\ pw = NewPlaywright
  /\ bulk = NoBulk
  /\ lastUpdate = [id |-> 0, status |-> "RUNNING"]
  /\ fs = [n \in FsNames |->
             IF n = DirName(EarlierTime, UrlOfLine(1)) /\ url_tests # << >>
             THEN "full" ELSE "absent"]
  /\ contexts = [w \in Workers |-> 0]
  /\ rec = RecOff
  /\ call = NoCall

\* -------------------------------------------------------------- environment
\* The database server stops accepting connections and queries.
DbDown ==
  /\ dbUp
  /\ dbUp' = FALSE
  /\ UNCHANGED <<call, dbVars, pending, client, autoCreatedTestRunId, proc, sh, pw,
                 bulk, lastUpdate, fs, contexts, rec>>

\* The database server is reachable again.
DbUp ==
  /\ ~dbUp
  /\ dbUp' = TRUE
  /\ UNCHANGED <<call, dbVars, pending, client, autoCreatedTestRunId, proc, sh, pw,
                 bulk, lastUpdate, fs, contexts, rec>>

\* ------------------------------------------- tests/test-helpers.js, one job
\* npx playwright test started in the background before the run is created.
TestsRunning_fromCreate == sh.pc \in {"create", "play"}

\* The script is at its npx playwright test line, which it reaches after
\* wait-for-db.js and create-test-run.js have ended.
TestsRunning == sh.pc = "play"

\* testRunDir of the job Playwright dispatches next: new Date() and the
\* job's URL.
testRunDir(p) == DirName(p.now, p.urls[p.next])

\* A millisecond passes.
Tick ==
  /\ pw.now < MaxTime
  /\ pw' = [pw EXCEPT !.now = @ + 1]
  /\ UNCHANGED <<call, dbUp, dbVars, pending, client, autoCreatedTestRunId,
                 proc, sh, bulk, lastUpdate, fs, contexts, rec>>

\* Playwright hands the next test of the batch spec to an idle worker, which
\* enters runWebsiteTest and opens the browser context.
StartJob(w) ==
  /\ TestsRunning
  /\ proc[w].pc = "idle"
  /\ pw.next <= sh.N
  /\ proc' = [proc EXCEPT ![w] = [IdleProc EXCEPT !.pc = "goto",
                                                   !.url = pw.next,
                                                   !.dir = testRunDir(pw)]]
  /\ pw' = [pw EXCEPT !.next = @ + 1]
  /\ fs' = mkdir(fs, testRunDir(pw))
  /\ contexts' = [contexts EXCEPT ![w] = @ + 1]
  /\ UNCHANGED <<call, dbUp, dbVars, pending, client, autoCreatedTestRunId, sh,
                 bulk, lastUpdate, rec>>

\* A failed test ends the job; Playwright discards the worker process and its
\* browser, so the contexts the job left open are gone and the next job of
\* this worker starts with fresh module state.
FailJob(w) ==
  /\ proc' = [proc EXCEPT ![w] = IdleProc]
  /\ pw' = [pw EXCEPT !.failed = TRUE]
  /\ client' = [client EXCEPT ![w] = NoClient]
  /\ autoCreatedTestRunId' = [autoCreatedTestRunId EXCEPT ![w] = 0]
  /\ contexts' = [contexts EXCEPT ![w] = 0]

\* page.goto, waitForLoadState, the scroll, the metric read or the screenshot
\* throws (navigation timeout or any driver error): runWebsiteTest rejects
\* before it reaches the database section.
DriverFail(w) ==
  /\ proc[w].pc = "goto"
  /\ FailJob(w)
  /\ UNCHANGED <<call, dbUp, dbVars, pending, sh, bulk, lastUpdate, fs, rec>>

\* The capture completes: screenshot.png written, context closed (which
\* writes network.har), HAR parsed, testMetadata built.
Capture(w) ==
  /\ proc[w].pc = "goto"
  /\ LET dirName == proc[w].dir IN
       /\ \E m \in CapturedMeas :
            proc' = [proc EXCEPT
                       ![w].pc = "ensure",
                       ![w].meas = [m EXCEPT !.screenshotPath =
                                               ScreenshotPath(dirName)]]
       /\ fs' = [fs EXCEPT ![dirName] = "full"]
  /\ contexts' = [contexts EXCEPT ![w] = closeContext(@)]
  /\ UNCHANGED <<call, dbUp, dbVars, pending, client, autoCreatedTestRunId, sh, pw,
                 bulk, lastUpdate, rec>>

\* The 120 s test timeout set by the batch spec expires while the job is in
\* its database section (between two awaits).
JobDeadline(w) ==
  /\ proc[w].pc \in {"ensure", "connect", "ensured", "insert", "http", "types"}
  /\ FailJob(w)
  /\ UNCHANGED <<call, dbUp, dbVars, pending, sh, bulk, lastUpdate, fs, rec>>

\* runWebsiteTest returns testMetadata: the test passes.
ReturnFromJob(p) ==
  IF p = Importer
  THEN /\ bulk' = [bulk EXCEPT
                       !.tests = Tail(bulk.tests),
                       !.inserted = IF proc[p].id # 0 THEN @ + 1 ELSE @]
       /\ proc' = [proc EXCEPT ![p] =
                     IF Tail(bulk.tests) = << >> THEN IdleProc
                     ELSE [IdleProc EXCEPT !.pc = "insert",
                                           !.testRunId = proc[p].testRunId,
                                           !.meas = Head(Tail(bulk.tests))]]
  ELSE /\ proc' = [proc EXCEPT ![p] = IdleProc]
       /\ bulk' = bulk

\* ensureTestRunId, first part: await initializePool().
InitializePool(w) ==
  /\ proc[w].pc = "ensure"
  /\ client' = [client EXCEPT ![w] = initializePool(client[w])]
  /\ proc' = [proc EXCEPT ![w].pc =
                IF client'[w].attempt > 0 THEN "connect" ELSE "ensured"]
  /\ UNCHANGED <<call, dbUp, dbVars, pending, autoCreatedTestRunId, sh, pw, bulk, lastUpdate, fs, contexts, rec>>

\* One connection attempt of initializePool()'s retry loop.
ConnectAttempt(w) ==
  /\ proc[w].pc = "connect"
  /\ client' = [client EXCEPT ![w] = connectAttempt(client[w], dbUp)]
  /\ proc' = [proc EXCEPT ![w].pc =
                IF client'[w].attempt > 0 THEN "connect" ELSE "ensured"]
  /\ UNCHANGED <<call, dbUp, dbVars, pending, autoCreatedTestRunId, sh, pw, bulk, lastUpdate, fs, contexts, rec>>

\* ensureTestRunId, second part: no database -> null; TEST_RUN_ID from the
\* environment; the cached auto-created id; else createTestRun(1, 1, ...).
EnsureTestRunId(w) ==
  /\ proc[w].pc = "ensured"
  /\ IF ~isDatabaseConnected(client[w])
     THEN /\ ReturnFromJob(w)
          /\ UNCHANGED <<dbVars, client, autoCreatedTestRunId>>
     ELSE IF sh.TEST_RUN_ID # 0
     THEN /\ proc' = [proc EXCEPT ![w].pc = "insert",
                                  ![w].testRunId = sh.TEST_RUN_ID]
          /\ UNCHANGED <<dbVars, client, autoCreatedTestRunId, bulk>>
     ELSE IF autoCreatedTestRunId[w] # 0
     THEN /\ proc' = [proc EXCEPT ![w].pc = "insert",
                                  ![w].testRunId = autoCreatedTestRunId[w]]
          /\ UNCHANGED <<dbVars, client, autoCreatedTestRunId, bulk>>
     ELSE IF dbUp
     THEN /\ Len(test_runs) < MaxRuns
          /\ test_runs' = createTestRun(test_runs, 1, 1)
          /\ autoCreatedTestRunId' =
               [autoCreatedTestRunId EXCEPT ![w] = Len(test_runs')]
          /\ proc' = [proc EXCEPT ![w].pc = "insert",
                                  ![w].testRunId = Len(test_runs')]
          /\ UNCHANGED <<url_tests, http_responses, resource_types, client,
                         bulk>>
     ELSE /\ \E connClass \in BOOLEAN :
               client' = [client EXCEPT ![w] = queryError(client[w], connClass)]
          /\ ReturnFromJob(w)
          /\ UNCHANGED <<dbVars, autoCreatedTestRunId>>
  /\ UNCHANGED <<call, dbUp, pending, sh, pw, lastUpdate, fs, contexts, rec>>

\* ------------------------------------------ ingest.js insertDomainTest
\* The INSERT INTO url_tests statement is sent with pool.query (autocommit):
\* it starts and takes the run's row lock for the counter trigger.
InsertUrlTest(p) ==
  /\ proc[p].pc = "insert"
  /\ LET r == proc[p].testRunId IN
     IF ~isDatabaseConnected(client[p])
     THEN /\ ReturnFromJob(p)
          /\ UNCHANGED <<pending, client>>
     ELSE IF ~dbUp
     THEN /\ \E connClass \in BOOLEAN :
               client' = [client EXCEPT ![p] = queryError(client[p], connClass)]
          /\ ReturnFromJob(p)
          /\ UNCHANGED pending
     ELSE IF ~ForeignKeyOk(r)
     THEN /\ ReturnFromJob(p)
          /\ UNCHANGED <<pending, client>>
     ELSE /\ RowLockFree(r, p)
          /\ Len(url_tests) + Cardinality(InFlight) < MaxTests
          /\ pending' = [pending EXCEPT ![p] =
                           <<UrlTestRow(r, proc[p].url, proc[p].meas)>>]
          /\ proc' = [proc EXCEPT ![p].pc = "commit"]
          /\ UNCHANGED <<client, bulk>>
  /\ UNCHANGED <<call, dbUp, dbVars, autoCreatedTestRunId, sh, pw,
                 lastUpdate, fs, contexts, rec>>

\* The statement commits: the row and the trigger's counter update become
\* visible together and RETURNING id reaches the caller; or the server goes
\* away first and the statement is rolled back.
CommitUrlTest(p) ==
  /\ proc[p].pc = "commit"
  /\ IF dbUp
     THEN /\ url_tests' = Append(url_tests, pending[p][1])
          /\ test_runs' = update_test_run_counts(test_runs, pending[p][1])
          /\ proc' = [proc EXCEPT ![p].pc = "http", ![p].id = Len(url_tests')]
          /\ UNCHANGED <<client, bulk>>
     ELSE /\ \E connClass \in BOOLEAN :
               client' = [client EXCEPT ![p] = queryError(client[p], connClass)]
          /\ ReturnFromJob(p)
          /\ UNCHANGED <<url_tests, test_runs>>
  /\ pending' = [pending EXCEPT ![p] = << >>]
  /\ UNCHANGED <<call, dbUp, http_responses, resource_types, autoCreatedTestRunId,
                 sh, pw, lastUpdate, fs, contexts, rec>>

\* await insertHttpResponses(id, httpResponseCodes): a second, separate
\* pool.query; its failure is swallowed (query returns null).
InsertHttpResponses(p) ==
  /\ proc[p].pc = "http"
  /\ LET codes == proc[p].meas.httpResponseCodes IN
     IF ~isDatabaseConnected(client[p]) \/ proc[p].id = 0 \/ DOMAIN codes = {}
     THEN UNCHANGED <<http_responses, client>>
     ELSE IF dbUp
     THEN /\ http_responses' =
               insertHttpResponses(http_responses, proc[p].id, codes)
          /\ UNCHANGED client
     ELSE /\ \E connClass \in BOOLEAN :
               client' = [client EXCEPT ![p] = queryError(client[p], connClass)]
          /\ UNCHANGED http_responses
  /\ proc' = [proc EXCEPT ![p].pc = "types"]
  /\ UNCHANGED <<call, dbUp, test_runs, url_tests, resource_types, pending,
                 autoCreatedTestRunId, sh, pw, bulk, lastUpdate, fs, contexts, rec>>

\* await insertResourceTypes(id, resourcesByType): a third pool.query; then
\* insertDomainTest returns id.
InsertResourceTypes(p) ==
  /\ proc[p].pc = "types"
  /\ LET types == proc[p].meas.resourcesByType IN
     IF ~isDatabaseConnected(client[p]) \/ proc[p].id = 0 \/ DOMAIN types = {}
     THEN UNCHANGED <<resource_types, client>>
     ELSE IF dbUp
     THEN /\ resource_types' =
               insertResourceTypes(resource_types, proc[p].id, types)
          /\ UNCHANGED client
     ELSE /\ \E connClass \in BOOLEAN :
               client' = [client EXCEPT ![p] = queryError(client[p], connClass)]
          /\ UNCHANGED resource_types
  /\ ReturnFromJob(p)
  /\ UNCHANGED <<call, dbUp, test_runs, url_tests, http_responses, pending,
                 autoCreatedTestRunId, sh, pw, lastUpdate, fs, contexts, rec>>

\* ------------------------------------------ ingest.js bulkInsertDomainTests
BulkLists == UNION { [1..n -> ImportedMeas] : n \in 1..MaxBulk }

\* bulkInsertDomainTests(testRunId, tests) is called after initializePool():
\* without a connection it returns 0, else its loop calls insertDomainTest
\* for each test.
BulkInsertStart ==
  /\ sh.pc = "import"
  /\ IF dbUp
     THEN /\ \E tests \in BulkLists :
               /\ bulk' = [tests |-> tests, size |-> Len(tests), inserted |-> 0]
               /\ proc' = [proc EXCEPT ![Importer] =
                             [IdleProc EXCEPT !.pc = "insert",
                                              !.testRunId = sh.TEST_RUN_ID,
                                              !.meas = Head(tests)]]
          /\ client' = [client EXCEPT ![Importer] =
                          [pool |-> TRUE, isConnected |-> TRUE, attempt |-> 0]]
          /\ sh' = [sh EXCEPT !.pc = "importing"]
     ELSE /\ sh' = [sh EXCEPT !.pc = "done"]
          /\ UNCHANGED <<bulk, proc, client>>
  /\ UNCHANGED <<call, dbUp, dbVars, pending, autoCreatedTestRunId, pw,
                 lastUpdate, fs, contexts, rec>>

\* bulkInsertDomainTests returns the number of inserted tests and the caller
\* closes its pool.
BulkInsertDone ==
  /\ sh.pc = "importing"
  /\ proc[Importer].pc = "idle"
  /\ sh' = [sh EXCEPT !.pc = "done"]
  /\ client' = [client EXCEPT ![Importer] = NoClient]
  /\ UNCHANGED <<call, dbUp, dbVars, pending, autoCreatedTestRunId, proc, pw, bulk, lastUpdate, fs, contexts, rec>>

\* ------------------------------------------------- test-urls-parallel.sh
ShellExit(code) == [sh EXCEPT !.pc = "done", !.EXIT_CODE = code]

\* node src/database/wait-for-db.js 30, and the prompt when it fails.
WaitForDb ==
  /\ sh.pc = "check"
  /\ IF dbUp
     THEN sh' = [sh EXCEPT !.pc = "create"]
     ELSE \E reply \in BOOLEAN :
            sh' = IF reply THEN [sh EXCEPT !.pc = "play", !.TEST_RUN_ID = 0]
                  ELSE ShellExit(1)
  /\ UNCHANGED <<call, dbUp, dbVars, pending, client, autoCreatedTestRunId, proc,
                 pw, bulk, lastUpdate, fs, contexts, rec>>

\* create-test-run.js accepting a total of 0.
totalUrlsRejected_never(totalUrls) == FALSE

\* if (totalUrls === 0) { ... process.exit(1) }, before the pool is opened.
totalUrlsRejected(totalUrls) == totalUrls = 0

\* node src/database/create-test-run.js "$TOTAL" "$WORKERS": exits 1 when
\* totalUrls is 0 or no run row could be created, and then the script exits.
CreateRun ==
  /\ sh.pc = "create"
  /\ IF totalUrlsRejected(sh.TOTAL) \/ ~dbUp
     THEN /\ sh' = ShellExit(1)
          /\ UNCHANGED test_runs
     ELSE /\ Len(test_runs) < MaxRuns
          /\ test_runs' =
               createTestRun(test_runs, sh.TOTAL, Cardinality(Workers))
          /\ sh' = [sh EXCEPT !.pc = "play", !.TEST_RUN_ID = Len(test_runs')]
  /\ UNCHANGED <<call, dbUp, url_tests, http_responses, resource_types, pending,
                 client, autoCreatedTestRunId, proc, pw, bulk,
                 lastUpdate, fs, contexts, rec>>

\* Playwright started in the background: the script goes on as soon as the
\* tests are dispatched.
PlaywrightDone_noWait == pw.next > sh.N

\* npx playwright test returns once every test of the spec has run and the
\* workers are gone; the exit code is 0 only if there were tests and all of
\* them passed.
PlaywrightDone ==
  /\ pw.next > sh.N
  /\ \A w \in Workers : proc[w].pc = "idle"

PlaywrightExit ==
  /\ sh.pc = "play"
  /\ PlaywrightDone
  /\ sh' = [sh EXCEPT
              !.pc = IF sh.mode = "batch" /\ sh.TEST_RUN_ID # 0
                     THEN "finalize" ELSE "done",
              !.EXIT_CODE = IF pw.failed \/ sh.N = 0 THEN 1 ELSE 0]
  /\ client' = [p \in Procs |-> IF p \in Workers THEN NoClient ELSE client[p]]
  /\ autoCreatedTestRunId' = [p \in Procs |-> 0]
  /\ UNCHANGED <<call, dbUp, dbVars, pending, proc, pw, bulk, lastUpdate, fs, contexts, rec>>

\* SIGINT reaches the script's process group while npx playwright test runs:
\* Playwright and its workers end (their SIGINT handlers close the pools).
\* The script sets no trap: either the shell ends with them, or it takes
\* Playwright's exit as an ordinary failure and goes on to its update step.
Sigint ==
  /\ sh.mode = "batch"
  /\ sh.pc = "play"
  /\ \A p \in Procs : pending[p] = << >>
  /\ \E shellEnds \in BOOLEAN :
       sh' = [sh EXCEPT
                !.pc = IF shellEnds \/ sh.TEST_RUN_ID = 0
                       THEN "done" ELSE "finalize",
                !.EXIT_CODE = 130]
  /\ proc' = [p \in Procs |-> IdleProc]
  /\ client' = [p \in Procs |-> NoClient]
  /\ autoCreatedTestRunId' = [p \in Procs |-> 0]
  /\ contexts' = [w \in Workers |-> 0]
  /\ pw' = [pw EXCEPT !.failed = TRUE]
  /\ UNCHANGED <<call, dbUp, dbVars, pending, bulk, lastUpdate, fs, rec>>

\* STATUS is chosen from Playwright's exit code.
FinalStatus(exitCode) == IF exitCode = 0 THEN "COMPLETED" ELSE "PARTIAL"

\* node src/database/update-test-run.js "$TEST_RUN_ID" "$STATUS" "$DURATION".
FinalizeRun ==
  /\ sh.pc = "finalize"
  /\ IF dbUp
     THEN /\ test_runs' = updateTestRun(test_runs, sh.TEST_RUN_ID,
                                        FinalStatus(sh.EXIT_CODE), 1)
          /\ lastUpdate' = [id |-> sh.TEST_RUN_ID,
                            status |-> FinalStatus(sh.EXIT_CODE)]
     ELSE UNCHANGED <<test_runs, lastUpdate>>
  /\ sh' = [sh EXCEPT !.pc = "done", !.STATUS = FinalStatus(sh.EXIT_CODE)]
  /\ UNCHANGED <<call, dbUp, url_tests, http_responses, resource_types, pending,
                 client, autoCreatedTestRunId, proc, pw, bulk, fs, contexts, rec>>

\* ------------------------------------------- src/database/update-test-run.js
\* An operator runs update-test-run.js <testRunId> <status> <durationMs> by
\* hand; main() accepts each of the four statuses. First await
\* initializePool(): the client is connected if the server accepts it.
UpdateCliConnect ==
  /\ sh.pc = "cli"
  /\ sh' = [sh EXCEPT !.pc = "update"]
  /\ call' = [fn |-> "updateTestRun", isConnected |-> dbUp,
              success |-> FALSE]
  /\ UNCHANGED <<dbUp, dbVars, pending, client, autoCreatedTestRunId, proc,
                 pw, bulk, lastUpdate, fs, contexts, rec>>

\* What updateTestRun returns: false without a connection or an id, else
\* true whatever query() returned (null when the UPDATE failed).
updateTestRunReturns(isConnected, testRunId, queryResult) ==
  IF ~isConnected \/ testRunId = 0 THEN FALSE ELSE TRUE

\* success = await updateTestRun(testRunId, status, durationMs), then
\* process.exit(success ? 0 : 1).
UpdateCli ==
  /\ sh.pc = "update"
  /\ IF call.isConnected /\ dbUp
     THEN /\ test_runs' = updateTestRun(test_runs, sh.TEST_RUN_ID, sh.STATUS, 1)
          /\ lastUpdate' = [id |-> sh.TEST_RUN_ID, status |-> sh.STATUS]
     ELSE UNCHANGED <<test_runs, lastUpdate>>
  /\ LET success ==
           updateTestRunReturns(call.isConnected, sh.TEST_RUN_ID,
                                IF dbUp THEN "result" ELSE "null")
     IN /\ call' = [call EXCEPT !.success = success]
        /\ sh' = [sh EXCEPT !.pc = "done",
                            !.EXIT_CODE = IF success THEN 0 ELSE 1]
  /\ UNCHANGED <<dbUp, url_tests, http_responses, resource_types, pending,
                 client, autoCreatedTestRunId, proc, pw, bulk, fs, contexts, rec>>

\* ------------------------------------------------- src/database/cleanup.js
\* Relations db/init.sql creates.
Relations == {"test_runs", "url_tests", "http_responses", "resource_types"}

\* Rows of SELECT DISTINCT screenshot_path FROM <relation>; null (written
\* as no result) when the relation does not exist.
SelectScreenshotPaths(relation) ==
  IF relation = "url_tests"
  THEN {url_tests[t].screenshot_path : t \in TestIds}
  ELSE {}

\* getDirectoryNamesFromDatabase(): dirNames built from the rows of a result;
\* the empty set when query() returned null.
getDirectoryNamesFromDatabase(gotResult, rows) ==
  IF gotResult
  THEN {extractDirNameFromPath(path) : path \in rows} \ {<< >>}
  ELSE {}

\* getDirectoryNamesFromFilesystem(): directories whose name does not start
\* with a dot.
getDirectoryNamesFromFilesystem(disk) ==
  {n \in DOMAIN disk : disk[n] \in {"empty", "full"} /\ Head(n) # Dot}

\* fs.rm that reports success and removes nothing.
rm_keeps(disk, name) == disk

\* fs.rm(dirPath, { recursive: true, force: true })
rm(disk, name) == [disk EXCEPT ![name] = "absent"]

\* node src/database/cleanup.js [--dry-run] starts.
RecStart(dryRun, run, disk, prev) ==
  [RecOff EXCEPT !.pc = "init", !.dryRun = dryRun, !.run = run,
                 !.before = disk, !.prev = prev]

\* main(): closePool() and process.exit after cleanupOrphanedDirectories
\* returned or threw.
RecExit(r) == [r EXCEPT !.pc = "done", !.client = NoClient, !.todo = {}]

\* cleanupOrphanedDirectories: await initializePool().
CleanInitializePool ==
  /\ rec.pc = "init"
  /\ rec' = [rec EXCEPT !.client = initializePool(rec.client),
                        !.pc = "connect"]
  /\ UNCHANGED <<call, dbUp, dbVars, pending, client, autoCreatedTestRunId, proc,
                 sh, pw, bulk, lastUpdate, fs, contexts>>

\* One attempt of the retry loop; after it, isDatabaseConnected() decides
\* between going on and throwing 'Database connection failed'.
CleanConnectAttempt ==
  /\ rec.pc = "connect"
  /\ LET c == connectAttempt(rec.client, dbUp) IN
       rec' = IF c.attempt > 0 THEN [rec EXCEPT !.client = c]
              ELSE IF isDatabaseConnected(c)
              THEN [rec EXCEPT !.client = c, !.pc = "query"]
              ELSE RecExit(rec)
  /\ UNCHANGED <<call, dbUp, dbVars, pending, client, autoCreatedTestRunId, proc,
                 sh, pw, bulk, lastUpdate, fs, contexts>>

\* dbDirs = await getDirectoryNamesFromDatabase(): the query names relation
\* domain_tests; query() returns null when the statement fails.
CleanQuery ==
  /\ rec.pc = "query"
  /\ IF ~dbUp
     THEN \E connClass \in BOOLEAN :
            rec' = [rec EXCEPT !.client = queryError(rec.client, connClass),
                               !.dbDirs = getDirectoryNamesFromDatabase(FALSE, {}),
                               !.gotRows = FALSE, !.pc = "scan"]
     ELSE LET ok == "domain_tests" \in Relations IN
          rec' = [rec EXCEPT
                    !.dbDirs = getDirectoryNamesFromDatabase(
                                 ok, SelectScreenshotPaths("domain_tests")),
                    !.gotRows = ok, !.pc = "scan"]
  /\ UNCHANGED <<call, dbUp, dbVars, pending, client, autoCreatedTestRunId, proc,
                 sh, pw, bulk, lastUpdate, fs, contexts>>

\* fsDirs, orphanedDirs = fsDirs.filter(d => !dbDirs.has(d)); returns at once
\* when there is no orphan.
CleanScan ==
  /\ rec.pc = "scan"
  /\ LET orphanedDirs == getDirectoryNamesFromFilesystem(fs) \ rec.dbDirs IN
       rec' = IF orphanedDirs = {}
              THEN RecExit([rec EXCEPT !.scanned = TRUE])
              ELSE [rec EXCEPT !.scanned = TRUE,
                               !.orphanedDirs = orphanedDirs,
                               !.todo = orphanedDirs, !.pc = "delete"]
  /\ UNCHANGED <<call, dbUp, dbVars, pending, client, autoCreatedTestRunId, proc,
                 sh, pw, bulk, lastUpdate, fs, contexts>>

\* One iteration of the loop over orphanedDirs: a dry run only reports;
\* otherwise fs.rm, whose failure is logged and skipped.
CleanDelete ==
  /\ rec.pc = "delete"
  /\ \E dirName \in rec.todo :
       LET left == rec.todo \ {dirName}
           after(r) == IF left = {} THEN RecExit(r) ELSE [r EXCEPT !.todo = left]
       IN IF rec.dryRun
          THEN /\ rec' = after(rec)
               /\ fs' = fs
          ELSE \E removed \in BOOLEAN :
                 IF removed
                 THEN /\ fs' = rm(fs, dirName)
                      /\ rec' = after([rec EXCEPT !.deletedCount = @ + 1])
                 ELSE /\ fs' = fs
                      /\ rec' = after(rec)
  /\ UNCHANGED <<call, dbUp, dbVars, pending, client, autoCreatedTestRunId, proc,
                 sh, pw, bulk, lastUpdate, contexts>>

\* cleanup.js is run once more.
CleanAgain ==
  /\ rec.pc = "done"
  /\ rec.run < MaxCleanRuns
  /\ \E dryRun \in BOOLEAN :
       rec' = RecStart(dryRun, rec.run + 1, fs,
                       [dryRun |-> rec.dryRun, scanned |-> rec.scanned,
                        deletedCount |-> rec.deletedCount,
                        orphanedDirs |-> rec.orphanedDirs])
  /\ UNCHANGED <<call, dbUp, dbVars, pending, client, autoCreatedTestRunId, proc,
                 sh, pw, bulk, lastUpdate, fs, contexts>>

\* ------------------------------------------------------ network.har files
\* response.status values of HAR entries: -1 and 0 for requests without a
\* response, then some HTTP statuses.
HarStatuses == {-1, 0, 200, 404, 500, 999}

\* A HAR entry: whether it has a response object, and response.status.
HarEntries ==
  {[response |-> FALSE, status |-> 0]}
    \cup {[response |-> TRUE, status |-> c] : c \in HarStatuses}

HarEntryLists == UNION {[1..n -> HarEntries] : n \in 0..MaxEntries}

\* What is at a HAR path: no readable file; a file that is not JSON; JSON
\* without log; a log without entries; entries that is a number; a HAR with
\* an entries list.
HarFiles ==
  {[kind |-> k, entries |-> << >>] :
     k \in {"missing", "garbage", "nolog", "noentries", "notalist"}}
    \cup {[kind |-> "har", entries |-> e] : e \in HarEntryLists}

\* ------------------------------- tests/test-helpers.js parseHttpResponseCodes
\* The histogram without the test on the sign of the status.
statusCounted_any(statusCode) == TRUE

\* if (statusCode > 0)
statusCounted(statusCode) == statusCode > 0

RECURSIVE forEachEntry(_, _)
\* harData.log.entries.forEach(...): an entry with a truthy response.status
\* that is counted increments statusCodeCounts[statusCode].
forEachEntry(entries, statusCodeCounts) ==
  IF entries = << >> THEN statusCodeCounts
  ELSE LET entry == Head(entries)
           key == NumberToString(entry.status)
       IN forEachEntry(
            Tail(entries),
            IF entry.response /\ entry.status # 0 /\ statusCounted(entry.status)
            THEN IF key \in DOMAIN statusCodeCounts
                 THEN [statusCodeCounts EXCEPT ![key] = @ + 1]
                 ELSE statusCodeCounts @@ (key :> 1)
            ELSE statusCodeCounts)

\* The try block: readFile or JSON.parse throws, or forEach is not a
\* function; otherwise statusCodeCounts.
tryParseHttpResponseCodes(file) ==
  IF file.kind \in {"missing", "garbage", "notalist"}
  THEN [threw |-> TRUE, value |-> EmptyMap]
  ELSE IF file.kind \in {"nolog", "noentries"}
  THEN [threw |-> FALSE, value |-> EmptyMap]
  ELSE [threw |-> FALSE, value |-> forEachEntry(file.entries, EmptyMap)]

\* parseHttpResponseCodes(harPath): the catch block returns {}.
parseHttpResponseCodes(file) ==
  LET r == tryParseHttpResponseCodes(file)
  IN IF r.threw THEN [threw |-> FALSE, value |-> EmptyMap] ELSE r

\* ------------------------------ src/database/queries.js, failed requests
\* A filter that keeps server errors only.
isFailedStatus_5xx(statusCode) == statusCode >= 500

\* if (statusCode >= 400)
isFailedStatus(statusCode) == statusCode >= 400

\* statusCategory of a failed request.
statusCategory(statusCode) ==
  IF statusCode >= 400 /\ statusCode < 500 THEN "Client Error"
  ELSE IF statusCode >= 500 THEN "Server Error"
  ELSE "Unknown"

\* AND ut.http_response_codes::text ~ '"[4-5][0-9]{2}"': some key of the
\* stored histogram is a 4 or a 5 followed by two digits.
HasFailedCodeKey(http_response_codes) ==
  \E key \in DOMAIN http_response_codes :
    /\ Len(key) = 3
    /\ key[1] \in {4, 5}
    /\ key[2] \in 0..9
    /\ key[3] \in 0..9

RECURSIVE pushFailedRequests(_)
\* for (const entry of harData.log.entries): failedRequests.push for every
\* entry whose response?.status is a failed status, in entry order.
pushFailedRequests(entries) ==
  IF entries = << >> THEN << >>
  ELSE LET entry == Head(entries)
       IN (IF entry.response /\ isFailedStatus(entry.status)
           THEN <<[statusCode |-> entry.status,
                   statusCategory |-> statusCategory(entry.status)]>>
           ELSE << >>) \o pushFailedRequests(Tail(entries))

\* getFailedRequestsByTestId(testId): [] without a connection, without a
\* row that passes the WHERE clause, and when the HAR file cannot be read
\* and parsed; test is the url_tests row, or << >> when there is none.
getFailedRequestsByTestId(connected, test, file) ==
  IF ~connected THEN << >>
  ELSE IF test = << >> THEN << >>
  ELSE IF ~HasFailedCodeKey(test.http_response_codes) THEN << >>
  ELSE IF file.kind = "har" THEN pushFailedRequests(file.entries)
  ELSE << >>

\* The two helpers are applied to a HAR file: network.har was ingested as
\* call.ingested, and call.file is what is at its path now.
ParseHttpResponseCodes ==
  /\ call.fn = "har"
  /\ call' = [call EXCEPT !.fn = "parseHttpResponseCodes",
                          !.result = parseHttpResponseCodes(call.file)]
  /\ UNCHANGED <<dbUp, dbVars, pending, client, autoCreatedTestRunId, proc,
                 sh, pw, bulk, lastUpdate, fs, contexts, rec>>

GetFailedRequestsByTestId ==
  /\ call.fn = "har"
  /\ call' =
       [call EXCEPT
          !.fn = "getFailedRequestsByTestId",
          !.result =
            getFailedRequestsByTestId(
              call.connected,
              IF call.rowExists
              THEN [http_response_codes |->
                      parseHttpResponseCodes(call.ingested).value]
              ELSE << >>,
              call.file)]
  /\ UNCHANGED <<dbUp, dbVars, pending, client, autoCreatedTestRunId, proc,
                 sh, pw, bulk, lastUpdate, fs, contexts, rec>>

\* ------------------------------------- src/index.js and routes/api.js
\* Routes of the server: lists, single entities, and /health.
ListEndpoints == {"/api/test-runs", "/api/test-runs/:id/urls"}
EntityEndpoints ==
  {"/api/test-runs/latest", "/api/test-runs/:id", "/api/url-tests/:id"}
DataEndpoints == ListEndpoints \cup EntityEndpoints
Endpoints == DataEndpoints \cup {"/health"}

NoResponse == [status |-> 0, success |-> FALSE, rows |-> 0, database |-> "none"]

\* The server process before start().
NewServer ==
  [fn |-> "api", pc |-> "start", client |-> NoClient, request |-> "none",
   id |-> 0, dbWasUp |-> FALSE, response |-> NoResponse]

\* query() as the query functions of queries.js use it: a result is there
\* only with a connection and a server that answers.
GotResult(c, up) == isDatabaseConnected(c) /\ up

\* Rows the functions of queries.js return for an endpoint: none without a
\* result (return [] / return null).
RowsFor(endpoint, id, c, up) ==
  IF ~GotResult(c, up) THEN {}
  ELSE IF endpoint = "/api/test-runs" THEN RunIds
  ELSE IF endpoint = "/api/test-runs/:id/urls" THEN TestsOfRun(id)
  ELSE IF endpoint = "/api/test-runs/latest"
  THEN (IF test_runs = << >> THEN {} ELSE {Len(test_runs)})
  ELSE IF endpoint = "/api/test-runs/:id" THEN RunIds \cap {id}
  ELSE TestIds \cap {id}

\* The handlers: /health answers from healthCheck(); an entity route
\* answers 404 when the query function returned null (or find() found
\* nothing); every other answer is 200 with the rows. The catch blocks that
\* answer 500 are not reached, the query functions do not throw.
Respond(endpoint, id, c, up) ==
  IF endpoint = "/health"
  THEN [status |-> 200, success |-> TRUE, rows |-> 0,
        database |-> IF GotResult(c, up) THEN "connected" ELSE "disconnected"]
  ELSE IF endpoint \in EntityEndpoints /\ RowsFor(endpoint, id, c, up) = {}
  THEN [status |-> 404, success |-> FALSE, rows |-> 0, database |-> "none"]
  ELSE [status |-> 200, success |-> TRUE,
        rows |-> Cardinality(RowsFor(endpoint, id, c, up)),
        database |-> "none"]

\* start(): await initializePool().
ApiStart ==
  /\ call.fn = "api"
  /\ call.pc = "start"
  /\ call' = [call EXCEPT !.client = initializePool(call.client),
                          !.pc = "connect"]
  /\ UNCHANGED <<dbUp, dbVars, pending, client, autoCreatedTestRunId, proc,
                 sh, pw, bulk, lastUpdate, fs, contexts, rec>>

\* One attempt of the retry loop; after the last one app.listen().
ApiConnectAttempt ==
  /\ call.fn = "api"
  /\ call.pc = "connect"
  /\ LET c == connectAttempt(call.client, dbUp) IN
       call' = [call EXCEPT !.client = c,
                            !.pc = IF c.attempt > 0 THEN "connect"
                                   ELSE "listen"]
  /\ UNCHANGED <<dbUp, dbVars, pending, client, autoCreatedTestRunId, proc,
                 sh, pw, bulk, lastUpdate, fs, contexts, rec>>

\* A GET request is handled: one query through query(), then the answer.
ApiRequest ==
  /\ call.fn = "api"
  /\ call.pc = "listen"
  /\ \E endpoint \in Endpoints, id \in 1..MaxRuns, connClass \in BOOLEAN :
       call' = [call EXCEPT
                  !.request = endpoint,
                  !.id = id,
                  !.dbWasUp = dbUp,
                  !.response = Respond(endpoint, id, call.client, dbUp),
                  !.client = IF isDatabaseConnected(call.client) /\ ~dbUp
                             THEN queryError(call.client, connClass)
                             ELSE call.client]
  /\ UNCHANGED <<dbUp, dbVars, pending, client, autoCreatedTestRunId, proc,
                 sh, pw, bulk, lastUpdate, fs, contexts, rec>>

\* ----------------------- tests/test-helpers.js collectPerformanceMetrics

\* The non-decreasing sequences of n timestamps from lo on.
RECURSIVE Rising(_, _)
Rising(n, lo) ==
  IF n = 0
  THEN {<< >>}
  ELSE UNION {{<<v>> \o s : s \in Rising(n - 1, v)} : v \in lo..MaxStamp}

\* The navigation entries performance.getEntriesByType('navigation')[0] can
\* be: the timestamps are in processing order, secureConnectionStart is 0
\* without TLS and within the connection with it, and a document event that has not happened yet (the page
\* went on to another document while it was scrolled) is 0.
NavTimings ==
  {[fetchStart |-> x[1][1],
    domainLookupStart |-> x[1][2],
    domainLookupEnd |-> x[1][3],
    connectStart |-> x[1][4],
    secureConnectionStart |-> x[3],
    connectEnd |-> x[1][5],
    requestStart |-> x[1][6],
    responseStart |-> x[1][7],
    responseEnd |-> x[1][8],
    domInteractive |-> IF x[2] >= 1 THEN x[1][9] ELSE 0,
    domContentLoadedEventStart |-> IF x[2] >= 2 THEN x[1][10] ELSE 0,
    domContentLoadedEventEnd |-> IF x[2] >= 3 THEN x[1][11] ELSE 0,
    loadEventEnd |-> IF x[2] >= 4 THEN x[1][12] ELSE 0] :
     x \in {y \in Rising(12, 0) \X (0..4) \X (0..MaxStamp) :
              y[3] = 0 \/ (y[1][4] <= y[3] /\ y[3] <= y[1][5])}}

\* metrics.navigation; << >> is null, navTiming is << >> when the page has
\* no navigation entry.
collectNavigation(navTiming) ==
  IF navTiming = << >>
  THEN << >>
  ELSE LET n == navTiming[1] IN
       <<[dnsLookup |-> n.domainLookupEnd - n.domainLookupStart,
          tcpConnection |-> n.connectEnd - n.connectStart,
          tlsNegotiation |->
            IF n.secureConnectionStart > 0
            THEN n.connectEnd - n.secureConnectionStart
            ELSE 0,
          timeToFirstByte |-> n.responseStart - n.requestStart,
          responseTime |-> n.responseEnd - n.responseStart,
          domContentLoaded |->
            n.domContentLoadedEventEnd - n.domContentLoadedEventStart,
          domInteractive |-> n.domInteractive - n.fetchStart,
          pageLoadTime |-> n.loadEventEnd - n.fetchStart]>>

\* navigation?.field: << >> is undefined.
optionalField(navigation, field) ==
  IF navigation = << >> THEN << >> ELSE <<navigation[1][field]>>

\* value || 0: undefined and 0 are falsy, every other number is kept.
orZero(value) ==
  IF value = << >> \/ value = <<0>> THEN 0 ELSE value[1]

\* Parameters $11 to $18 of the INSERT of insertDomainTest, by column.
timingParams(performanceMetrics) ==
  LET nav == performanceMetrics.navigation IN
  [dns_lookup_ms |-> orZero(optionalField(nav, "dnsLookup")),
   tcp_connection_ms |-> orZero(optionalField(nav, "tcpConnection")),
   tls_negotiation_ms |-> orZero(optionalField(nav, "tlsNegotiation")),
   time_to_first_byte_ms |-> orZero(optionalField(nav, "timeToFirstByte")),
   response_time_ms |-> orZero(optionalField(nav, "responseTime")),
   dom_content_loaded_ms |-> orZero(optionalField(nav, "domContentLoaded")),
   dom_interactive_ms |-> orZero(optionalField(nav, "domInteractive")),
   total_page_load_ms |-> orZero(optionalField(nav, "pageLoadTime"))]

\* The job collects the metrics of the page it has scrolled.
CollectPerformanceMetrics ==
  /\ call.fn = "metrics"
  /\ call.pc = "page"
  /\ call' = [call EXCEPT
                !.pc = "collected",
                !.performanceMetrics =
                   [navigation |-> collectNavigation(call.navTiming)]]
  /\ UNCHANGED <<dbUp, dbVars, pending, client, autoCreatedTestRunId, proc,
                 sh, pw, bulk, lastUpdate, fs, contexts, rec>>

\* insertDomainTest stores the timing columns of the row: the DECIMAL
\* columns of db/init.sql take any sign.
InsertNavigationTimings ==
  /\ call.fn = "metrics"
  /\ call.pc = "collected"
  /\ call' = [call EXCEPT !.pc = "stored",
                          !.row = timingParams(call.performanceMetrics)]
  /\ UNCHANGED <<dbUp, dbVars, pending, client, autoCreatedTestRunId, proc,
                 sh, pw, bulk, lastUpdate, fs, contexts, rec>>

\* ------------------------------------------- src/database/wait-for-db.js

\* waitForDatabase(timeoutSeconds) is called: startTime = Date.now(), no pool
\* yet. elapsed is Date.now() - startTime in seconds; upSince is the elapsed
\* time since which the database has been reachable, -1 while it is not.
NewWait(up) ==
  [fn |-> "waitForDatabase", pc |-> "while", client |-> NoClient,
   elapsed |-> 0, upSince |-> IF up THEN 0 ELSE -1, result |-> FALSE]

\* The database server starts to accept connections during the wait.
DatabaseStarts ==
  /\ call.fn = "waitForDatabase"
  /\ call.pc # "returned"
  /\ ~dbUp
  /\ dbUp' = TRUE
  /\ call' = [call EXCEPT !.upSince = call.elapsed]
  /\ UNCHANGED <<dbVars, pending, client, autoCreatedTestRunId, proc, sh, pw,
                 bulk, lastUpdate, fs, contexts, rec>>

\* The database server stops during the wait.
DatabaseStops ==
  /\ call.fn = "waitForDatabase"
  /\ call.pc # "returned"
  /\ dbUp
  /\ dbUp' = FALSE
  /\ call' = [call EXCEPT !.upSince = -1]
  /\ UNCHANGED <<dbVars, pending, client, autoCreatedTestRunId, proc, sh, pw,
                 bulk, lastUpdate, fs, contexts, rec>>

\* while (Date.now() - startTime < timeoutMs): the next round, or after the
\* loop closePool() and return false.
WaitWhile ==
  /\ call.fn = "waitForDatabase"
  /\ call.pc = "while"
  /\ call' = IF call.elapsed < timeoutSeconds
             THEN [call EXCEPT !.pc = "initializePool"]
             ELSE [call EXCEPT !.pc = "returned", !.client = NoClient,
                               !.result = FALSE]
  /\ UNCHANGED <<dbUp, dbVars, pending, client, autoCreatedTestRunId, proc,
                 sh, pw, bulk, lastUpdate, fs, contexts, rec>>

\* await initializePool(), up to its first connection attempt.
WaitInitializePool ==
  /\ call.fn = "waitForDatabase"
  /\ call.pc = "initializePool"
  /\ LET c == initializePool(call.client) IN
       call' = [call EXCEPT
                  !.client = c,
                  !.pc = IF c.attempt > 0 THEN "connect" ELSE "connected"]
  /\ UNCHANGED <<dbUp, dbVars, pending, client, autoCreatedTestRunId, proc,
                 sh, pw, bulk, lastUpdate, fs, contexts, rec>>

\* One attempt of initializePool()'s retry loop: a failing attempt is refused
\* at once or runs into the connection timeout, and is followed by the retry
\* delay unless it was the last.
WaitConnectAttempt ==
  /\ call.fn = "waitForDatabase"
  /\ call.pc = "connect"
  /\ LET c == connectAttempt(call.client, dbUp) IN
       \E took \in {0, connectionTimeout} :
         call' = [call EXCEPT
                    !.client = c,
                    !.pc = IF c.attempt > 0 THEN "connect" ELSE "connected",
                    !.elapsed =
                       IF dbUp THEN @
                       ELSE @ + took + IF c.attempt > 0 THEN retryDelay ELSE 0]
  /\ UNCHANGED <<dbUp, dbVars, pending, client, autoCreatedTestRunId, proc,
                 sh, pw, bulk, lastUpdate, fs, contexts, rec>>

\* if (isDatabaseConnected()) { closePool(); return true }, else the pause
\* of one second before the next round.
WaitConnected ==
  /\ call.fn = "waitForDatabase"
  /\ call.pc = "connected"
  /\ call' = IF isDatabaseConnected(call.client)
             THEN [call EXCEPT !.pc = "returned", !.client = NoClient,
                               !.result = TRUE]
             ELSE [call EXCEPT !.pc = "while", !.elapsed = @ + retryWait]
  /\ UNCHANGED <<dbUp, dbVars, pending, client, autoCreatedTestRunId, proc,
                 sh, pw, bulk, lastUpdate, fs, contexts, rec>>

\* ------------------------------------------------------------ specification
Work ==
  \/ \E w \in Workers : StartJob(w)
  \/ \E w \in Workers : DriverFail(w)
  \/ \E w \in Workers : Capture(w)
  \/ \E w \in Workers : JobDeadline(w)
  \/ \E w \in Workers : InitializePool(w)
  \/ \E w \in Workers : ConnectAttempt(w)
  \/ \E w \in Workers : EnsureTestRunId(w)
  \/ \E p \in Procs : InsertUrlTest(p)
  \/ \E p \in Procs : CommitUrlTest(p)
  \/ \E p \in Procs : InsertHttpResponses(p)
  \/ \E p \in Procs : InsertResourceTypes(p)
  \/ BulkInsertStart
  \/ BulkInsertDone
  \/ WaitForDb
  \/ CreateRun
  \/ PlaywrightExit
  \/ FinalizeRun
  \/ UpdateCliConnect
  \/ UpdateCli

Next ==
  \/ DbDown
  \/ DbUp
  \/ Work

Spec == Init /\ [][Next]_vars

\* The same program with a database that stays reachable throughout.
InitDbReachable == Init /\ dbUp

SpecDbReachable == InitDbReachable /\ [][Work]_vars

\* The same, with a SIGINT that can arrive during a batch.
NextInterrupt ==
  \/ Work
  \/ Sigint

SpecInterrupt == InitDbReachable /\ [][NextInterrupt]_vars

\* cleanup.js run (up to MaxCleanRuns times in a row) while nothing else
\* runs: test-history/ holds what earlier runs left behind.
InitClean ==
  /\ dbUp \in BOOLEAN
  /\ \/ /\ test_runs = << >>
        /\ url_tests = << >>
        /\ http_responses = {}
        /\ resource_types = {}
     \/ /\ test_runs = <<EarlierRun>>
        /\ url_tests = <<EarlierTest>>
        /\ http_responses = insertHttpResponses({}, 1, EarlierTest.http_response_codes)
        /\ resource_types = insertResourceTypes({}, 1, EarlierTest.resources_by_type)
  /\ pending = [p \in Procs |-> << >>]
  /\ client = [p \in Procs |-> NoClient]
  /\ autoCreatedTestRunId = [p \in Procs |-> 0]
  /\ proc = [p \in Procs |-> IdleProc]
  /\ sh = Invocation("clean", "done", 0, 0, 0, "RUNNING")
  /\ pw = NewPlaywright
  /\ bulk = NoBulk
  /\ lastUpdate = [id |-> 0, status |-> "RUNNING"]
  /\ fs \in [FsNames -> FsKinds]
  /\ fs[HiddenName] \in {"absent", "full"}
  /\ fs[DirName(EarlierTime, UrlOfLine(1))] \in
       IF url_tests = << >> THEN {"absent", "full"} ELSE {"full"}
  /\ \A t \in ThisTime..MaxTime, j \in 1..MaxUrls :
       (t > ThisTime \/ j >= 2) => fs[DirName(t, UrlOfLine(j))] = "absent"
  /\ contexts = [w \in Workers |-> 0]
  /\ \E dryRun \in BOOLEAN : rec = RecStart(dryRun, 1, fs, NoPrev)
  /\ call = NoCall

CleanOnce ==
  \/ CleanInitializePool
  \/ CleanConnectAttempt
  \/ CleanQuery
  \/ CleanScan
  \/ CleanDelete

Clean ==
  \/ CleanOnce
  \/ CleanAgain

NextClean ==
  \/ DbDown
  \/ DbUp
  \/ Clean

SpecClean == InitClean /\ [][NextClean]_vars

\* cleanup.js run once, without --dry-run, while npx playwright test runs
\* the URL jobs against a reachable, freshly initialized database.
InitCleanDuringRun ==
  /\ dbUp = TRUE
  /\ test_runs = << >>
  /\ url_tests = << >>
  /\ http_responses = {}
  /\ resource_types = {}
  /\ pending = [p \in Procs |-> << >>]
  /\ client = [p \in Procs |-> NoClient]
  /\ autoCreatedTestRunId = [p \in Procs |-> 0]
  /\ proc = [p \in Procs |-> IdleProc]
  /\ \E n \in 1..MaxUrls : sh = Invocation("direct", "play", n, n, 0, "RUNNING")
  /\ pw = NewPlaywright
  /\ bulk = NoBulk
  /\ lastUpdate = [id |-> 0, status |-> "RUNNING"]
  /\ fs = [n \in FsNames |-> "absent"]
  /\ contexts = [w \in Workers |-> 0]
  /\ rec = RecStart(FALSE, MaxCleanRuns, fs, NoPrev)
  /\ call = NoCall

NextCleanDuringRun ==
  \/ \E w \in Workers : StartJob(w)
  \/ \E w \in Workers : DriverFail(w)
  \/ \E w \in Workers : Capture(w)
  \/ \E w \in Workers : JobDeadline(w)
  \/ \E w \in Workers : InitializePool(w)
  \/ \E w \in Workers : ConnectAttempt(w)
  \/ \E w \in Workers : EnsureTestRunId(w)
  \/ \E w \in Workers : InsertUrlTest(w)
  \/ \E w \in Workers : CommitUrlTest(w)
  \/ \E w \in Workers : InsertHttpResponses(w)
  \/ \E w \in Workers : InsertResourceTypes(w)
  \/ PlaywrightExit
  \/ CleanOnce

SpecCleanDuringRun ==
  /\ InitCleanDuringRun
  /\ [][NextCleanDuringRun]_vars

\* No batch, import or cleanup runs.
NoProcessRuns ==
  /\ pending = [p \in Procs |-> << >>]
  /\ client = [p \in Procs |-> NoClient]
  /\ autoCreatedTestRunId = [p \in Procs |-> 0]
  /\ proc = [p \in Procs |-> IdleProc]
  /\ sh = Invocation("none", "done", 0, 0, 0, "RUNNING")
  /\ pw = NewPlaywright
  /\ bulk = NoBulk
  /\ lastUpdate = [id |-> 0, status |-> "RUNNING"]
  /\ fs = [n \in FsNames |-> "absent"]
  /\ contexts = [w \in Workers |-> 0]
  /\ rec = RecOff

\* Nothing runs and the database is as db/init.sql leaves it.
NothingRuns ==
  /\ test_runs = << >>
  /\ url_tests = << >>
  /\ http_responses = {}
  /\ resource_types = {}
  /\ NoProcessRuns

\* The HAR helpers applied to every HAR file up to MaxEntries entries; the
\* file is still what was ingested, or it is gone.
InitHar ==
  /\ dbUp = TRUE
  /\ NothingRuns
  /\ \E connected \in BOOLEAN, rowExists \in BOOLEAN, ingested \in HarFiles :
       \E file \in {ingested, [kind |-> "missing", entries |-> << >>]} :
         call = [fn |-> "har", connected |-> connected,
                 rowExists |-> rowExists, ingested |-> ingested,
                 file |-> file, result |-> << >>]

NextHar ==
  \/ ParseHttpResponseCodes
  \/ GetFailedRequestsByTestId

SpecHar == InitHar /\ [][NextHar]_vars

\* The server of src/index.js is started and answers GET requests while
\* the database comes and goes; the database is empty or holds the earlier
\* run.
InitApi ==
  /\ dbUp \in BOOLEAN
  /\ \/ /\ test_runs = << >>
        /\ url_tests = << >>
        /\ http_responses = {}
        /\ resource_types = {}
     \/ /\ test_runs = <<EarlierRun>>
        /\ url_tests = <<EarlierTest>>
        /\ http_responses = insertHttpResponses({}, 1, EarlierTest.http_response_codes)
        /\ resource_types = insertResourceTypes({}, 1, EarlierTest.resources_by_type)
  /\ NoProcessRuns
  /\ call = NewServer

NextApi ==
  \/ DbDown
  \/ DbUp
  \/ ApiStart
  \/ ApiConnectAttempt
  \/ ApiRequest

SpecApi == InitApi /\ [][NextApi]_vars

\* Lines a urls.txt can hold: both protocols, with and without a trailing
\* slash, the same line more than once.
Urls ==
  {Url(secure, host, slash) :
     secure \in BOOLEAN, host \in 1..MaxUrls, slash \in BOOLEAN}

\* npx playwright test over any such urls.txt, the clock running, against a
\* reachable and freshly initialized database.
InitArtifacts ==
  /\ dbUp = TRUE
  /\ test_runs = << >>
  /\ url_tests = << >>
  /\ http_responses = {}
  /\ resource_types = {}
  /\ pending = [p \in Procs |-> << >>]
  /\ client = [p \in Procs |-> NoClient]
  /\ autoCreatedTestRunId = [p \in Procs |-> 0]
  /\ proc = [p \in Procs |-> IdleProc]
  /\ \E n \in 1..MaxUrls : sh = Invocation("direct", "play", n, n, 0, "RUNNING")
  /\ \E urls \in [1..MaxUrls -> Urls] : pw = [NewPlaywright EXCEPT !.urls = urls]
  /\ bulk = NoBulk
  /\ lastUpdate = [id |-> 0, status |-> "RUNNING"]
  /\ fs = [n \in FsNames |-> "absent"]
  /\ contexts = [w \in Workers |-> 0]
  /\ rec = RecOff
  /\ call = NoCall

NextArtifacts ==
  \/ Tick
  \/ \E w \in Workers : StartJob(w)
  \/ \E w \in Workers : DriverFail(w)
  \/ \E w \in Workers : Capture(w)
  \/ \E w \in Workers : JobDeadline(w)
  \/ \E w \in Workers : InitializePool(w)
  \/ \E w \in Workers : ConnectAttempt(w)
  \/ \E w \in Workers : EnsureTestRunId(w)
  \/ \E w \in Workers : InsertUrlTest(w)
  \/ \E w \in Workers : CommitUrlTest(w)
  \/ \E w \in Workers : InsertHttpResponses(w)
  \/ \E w \in Workers : InsertResourceTypes(w)
  \/ PlaywrightExit

SpecArtifacts == InitArtifacts /\ [][NextArtifacts]_vars

\* One job's page has been scrolled; its navigation entry is any of
\* NavTimings, or the page has none.
InitMetrics ==
  /\ dbUp = TRUE
  /\ NothingRuns
  /\ \E navTiming \in {<< >>} \cup {<<n>> : n \in NavTimings} :
       call = [fn |-> "metrics", pc |-> "page", navTiming |-> navTiming,
               performanceMetrics |-> [navigation |-> << >>],
               row |-> << >>]

NextMetrics ==
  \/ CollectPerformanceMetrics
  \/ InsertNavigationTimings

SpecMetrics == InitMetrics /\ [][NextMetrics]_vars

\* node src/database/wait-for-db.js 30 while the database comes and goes.
InitWaitForDb ==
  /\ dbUp \in BOOLEAN
  /\ NothingRuns
  /\ call = NewWait(dbUp)

NextWaitForDb ==
  \/ DatabaseStarts
  \/ DatabaseStops
  \/ WaitWhile
  \/ WaitInitializePool
  \/ WaitConnectAttempt
  \/ WaitConnected

SpecWaitForDb == InitWaitForDb /\ [][NextWaitForDb]_vars

\* ===================================================================== claims
Counted(runs, r) == runs[r].passed_count + runs[r].failed_count

SameCounters(r) ==
  /\ test_runs'[r].passed_count = test_runs[r].passed_count
  /\ test_runs'[r].failed_count = test_runs[r].failed_count

\* C1: every successful insert of a url_tests row for run r adds exactly one
\* row and changes exactly one counter of r by exactly +1 (passed_count for
\* status PASSED, failed_count for any other status), leaves the counters of
\* every other run unchanged, and the counters change in no other step.
C1_TriggerCountsEachInsertOnce ==
  [][ IF url_tests' # url_tests
      THEN /\ Len(url_tests') = Len(url_tests) + 1
           /\ SubSeq(url_tests', 1, Len(url_tests)) = url_tests
           /\ LET new == url_tests'[Len(url_tests')]
                  r == new.test_run_id
              IN /\ r \in RunIds
                 /\ test_runs'[r].passed_count = test_runs[r].passed_count
                      + (IF new.status = "PASSED" THEN 1 ELSE 0)
                 /\ test_runs'[r].failed_count = test_runs[r].failed_count
                      + (IF new.status = "PASSED" THEN 0 ELSE 1)
                 /\ \A q \in RunIds \ {r} : SameCounters(q)
      ELSE \A q \in RunIds : SameCounters(q) ]_vars

\* C1 witness: a run that has counted a passed and a non-passed insert.
C1_Witness ==
  \E r \in RunIds :
    /\ test_runs[r].passed_count = 1
    /\ test_runs[r].failed_count = 1
    /\ \E t \in TestsOfRun(r) : url_tests[t].status \in {"FAILED", "TIMEOUT", "ERROR"}

\* C2: for every run whose status is COMPLETED, PARTIAL or FAILED and for
\* which no url_tests INSERT is in flight, passed_count + failed_count equals
\* the number of url_tests rows with that run id.
C2_FinalizedCountersMatchRows ==
  \A r \in RunIds :
    (test_runs[r].status \in Terminal /\ RowLockFree(r, -1)) =>
      Counted(test_runs, r) = Cardinality(TestsOfRun(r))

\* C2 witness: a finalized batch run that holds the rows two jobs inserted.
C2_Witness ==
  /\ sh.mode = "batch"
  /\ sh.pc = "done"
  /\ sh.TEST_RUN_ID \in RunIds
  /\ test_runs[sh.TEST_RUN_ID].status \in Terminal
  /\ Cardinality(TestsOfRun(sh.TEST_RUN_ID)) = 2

\* C3 (as claimed): the only status changes are RUNNING -> COMPLETED,
\* RUNNING -> PARTIAL and RUNNING -> FAILED; every other requested transition
\* leaves the status unchanged.
C3_OnlyStrictTransitions ==
  [][ \A r \in RunIds :
        test_runs'[r].status # test_runs[r].status =>
          /\ test_runs[r].status = "RUNNING"
          /\ test_runs'[r].status \in Terminal ]_vars

\* C3 (amended): a run row is born RUNNING, its status changes only through
\* updateTestRun's UPDATE, and that UPDATE applies the requested status to an
\* existing run whatever its current status is.
C3_UpdateAppliesAnyRequestedStatus ==
  [][ /\ Len(test_runs') > Len(test_runs) =>
           test_runs'[Len(test_runs')].status = "RUNNING"
      /\ \A r \in RunIds :
           test_runs'[r].status # test_runs[r].status =>
             lastUpdate' = [id |-> r, status |-> test_runs'[r].status]
      /\ (lastUpdate' # lastUpdate /\ lastUpdate'.id \in RunIds) =>
           test_runs'[lastUpdate'.id].status = lastUpdate'.status ]_vars

\* C3 witness: the run of the earlier batch, finalized COMPLETED, has been
\* set back to RUNNING by update-test-run.js.
C3_Witness ==
  /\ Len(test_runs) >= 1
  /\ sh.mode = "cli"
  /\ sh.pc = "done"
  /\ lastUpdate = [id |-> 1, status |-> "RUNNING"]
  /\ test_runs[1].status = "RUNNING"
  /\ test_runs[1].passed_count = 1

\* C4 (as claimed): once the invocation that created a run (the batch script,
\* or a Playwright run whose workers auto-create runs) has finished, no run it
\* created is still RUNNING.  Checked with the database reachable throughout.
C4_NoRunLeftRunning ==
  (sh.mode \in {"batch", "direct"} /\ sh.pc = "done") =>
    \A r \in RunIds : test_runs[r].status \in Terminal

\* C5 (as claimed): a batch over at least one URL that has finalized its run
\* left it COMPLETED exactly when the run's failed_count is 0, and PARTIAL
\* only with failed_count >= 1.
C5_FinalStatusFollowsFailedCount ==
  ( /\ sh.mode = "batch"
    /\ sh.pc = "done"
    /\ sh.N >= 1
    /\ sh.TEST_RUN_ID \in RunIds
    /\ test_runs[sh.TEST_RUN_ID].status \in {"COMPLETED", "PARTIAL"} ) =>
      ( test_runs[sh.TEST_RUN_ID].status = "COMPLETED"
          <=> test_runs[sh.TEST_RUN_ID].failed_count = 0 )

\* C6 (as claimed): while a run is COMPLETED, PARTIAL or FAILED, its set of
\* url_tests rows and its passed/failed counters never change.
C6_TerminalRunIsFrozen ==
  [][ \A r \in RunIds :
        test_runs[r].status \in Terminal =>
          /\ TestsOfRunIn(url_tests', r) = TestsOfRun(r)
          /\ SameCounters(r) ]_vars

\* C6 (amended): once the batch script has started to finalize its run, no
\* url_tests row is inserted and no counter changes in this invocation, and
\* no job of the batch is still running.
C6_NoInsertAfterBatchFinalization ==
  [][ (sh.mode = "batch" /\ sh.pc \in {"finalize", "done"}) =>
        /\ url_tests' = url_tests
        /\ \A r \in RunIds : SameCounters(r)
        /\ \A w \in Workers : proc[w].pc = "idle" /\ pending[w] = << >> ]_vars

\* C6 witness: a batch has finalized its run, which holds an ingested row.
C6_Witness ==
  /\ sh.mode = "batch"
  /\ sh.pc = "done"
  /\ sh.TEST_RUN_ID \in RunIds
  /\ test_runs[sh.TEST_RUN_ID].status \in Terminal
  /\ TestsOfRun(sh.TEST_RUN_ID) # {}

\* C7 (as claimed): for every run, passed_count + failed_count <= number of
\* url_tests rows of the run <= total_urls.
C7_RowsWithinDeclaredTotal ==
  \A r \in RunIds :
    /\ Counted(test_runs, r) <= Cardinality(TestsOfRun(r))
    /\ Cardinality(TestsOfRun(r)) <= test_runs[r].total_urls

\* C7 (amended): for every run, passed_count + failed_count <= number of
\* url_tests rows; and the run a batch script created holds at most
\* total_urls rows while that batch is the invocation inserting into it.
C7_CountedWithinRowsAndBatchWithinTotal ==
  /\ \A r \in RunIds : Counted(test_runs, r) <= Cardinality(TestsOfRun(r))
  /\ (sh.mode = "batch" /\ sh.TEST_RUN_ID \in RunIds) =>
       Cardinality(TestsOfRun(sh.TEST_RUN_ID))
         <= test_runs[sh.TEST_RUN_ID].total_urls

\* C7 witness: a batch run that has reached its declared total of two rows.
C7_Witness ==
  /\ sh.mode = "batch"
  /\ sh.TEST_RUN_ID \in RunIds
  /\ test_runs[sh.TEST_RUN_ID].total_urls = 2
  /\ Cardinality(TestsOfRun(sh.TEST_RUN_ID)) = 2
  /\ Counted(test_runs, sh.TEST_RUN_ID) = 2

\* The step in which insertDomainTest returns to its caller in process p (the
\* process itself goes on: its pool object still exists).
InsertPcs == {"insert", "commit", "http", "types"}

InsertReturns(p) ==
  /\ proc[p].pc \in InsertPcs
  /\ proc'[p].pc \notin InsertPcs
  /\ client'[p].pool

HttpRowsOf(rows, t) == {x \in rows : x.url_test_id = t}

\* C8 (as claimed): when insertDomainTest returns, either the url_tests row
\* and all of its http_responses and resource_types rows are in the database
\* or none of them is.
C8_InsertIsAllOrNothing ==
  [][ \A p \in Procs :
        InsertReturns(p) =>
          LET tt == IF proc[p].pc = "types" THEN proc[p].id ELSE 0
          IN IF tt = 0
             THEN /\ url_tests' = url_tests
                  /\ http_responses' = http_responses
                  /\ resource_types' = resource_types
             ELSE /\ HttpRowsOf(http_responses', tt) =
                       insertHttpResponses({}, tt,
                                           url_tests'[tt].http_response_codes)
                  /\ HttpRowsOf(resource_types', tt) =
                       insertResourceTypes({}, tt,
                                           url_tests'[tt].resources_by_type)
    ]_vars

RECURSIVE SumResponseCount(_)
SumResponseCount(rows) ==
  IF rows = {} THEN 0
  ELSE LET x == CHOOSE y \in rows : TRUE
       IN x.response_count + SumResponseCount(rows \ {x})

\* C9 (as claimed): for every url_tests row whose insertDomainTest call has
\* returned, the sum of response_count over its http_responses rows equals
\* the sum of the values of its http_response_codes map, and the status_code
\* values of those rows are exactly the keys of the map.
C9_NormalizedRowsMatchMap ==
  [][ \A p \in Procs :
        (InsertReturns(p) /\ proc[p].pc = "types") =>
          LET t == proc[p].id
              rows == HttpRowsOf(http_responses', t)
              map == url_tests'[t].http_response_codes
          IN /\ SumResponseCount(rows) = SumValues(map)
             /\ {NumberToString(x.status_code) : x \in rows} = DOMAIN map
    ]_vars

\* C10 (as claimed): with the database reachable, when the batch's Playwright
\* run has completed, every one of the N URL jobs is accounted for by exactly
\* one url_tests row of the run.
C10_EveryJobIngestedOnce ==
  ( /\ sh.mode = "batch"
    /\ sh.pc \in {"finalize", "done"}
    /\ sh.TEST_RUN_ID \in RunIds ) =>
      \A j \in 1..sh.N :
        Cardinality({t \in TestsOfRun(sh.TEST_RUN_ID) : url_tests[t].url = j})
          = 1

\* C11 (as claimed): the status recorded for a job follows its outcome, so
\* with the database reachable a batch in which some job failed (Playwright
\* exit code other than 0) holds a TIMEOUT or ERROR row of its run for a URL
\* of the batch.
C11_FailedJobRecordedAsTimeoutOrError ==
  ( /\ sh.mode = "batch"
    /\ sh.pc \in {"finalize", "done"}
    /\ sh.N >= 1
    /\ sh.TEST_RUN_ID \in RunIds
    /\ sh.EXIT_CODE # 0 ) =>
      \E t \in TestsOfRun(sh.TEST_RUN_ID) :
        /\ url_tests[t].status \in {"TIMEOUT", "ERROR"}
        /\ url_tests[t].url \in 1..sh.N

RECURSIVE OpenSessions(_)
\* Browser contexts open in the workers of set W.
OpenSessions(W) ==
  IF W = {} THEN 0
  ELSE LET w == CHOOSE x \in W : TRUE
       IN contexts[w] + OpenSessions(W \ {w})

C13_CreateBeforeIngestFinalizeAfter ==
  sh.mode = "batch" =>
    /\ sh.pc \in {"check", "create"} =>
         /\ \A w \in Workers : proc[w].pc = "idle"
         /\ sh.TEST_RUN_ID = 0
    /\ \A t \in TestIds : url_tests[t].test_run_id \in RunIds
    /\ \A p \in Procs :
         /\ pending[p] # << >> => pending[p][1].test_run_id \in RunIds
         /\ proc[p].pc \in InsertPcs => sh.pc = "play"
    /\ (sh.pc = "play" /\ sh.TEST_RUN_ID # 0) =>
         /\ sh.TEST_RUN_ID \in RunIds
         /\ test_runs[sh.TEST_RUN_ID].status = "RUNNING"
    /\ sh.pc \in {"finalize", "done"} =>
         \A p \in Procs : proc[p].pc = "idle" /\ pending[p] = << >>

\* C13 witness: a job's INSERT for the batch's run is in flight, after the
\* run row was created and before the script finalizes it.
C13_Witness ==
  /\ sh.mode = "batch"
  /\ sh.pc = "play"
  /\ sh.TEST_RUN_ID \in RunIds
  /\ \E w \in Workers :
       /\ proc[w].pc = "commit"
       /\ pending[w] # << >>
       /\ pending[w][1].test_run_id = sh.TEST_RUN_ID

\* C14 (as claimed): a batch over a URL list without tests ends with a run
\* row of its own that is COMPLETED, has passed_count = 0 and
\* failed_count = 0, and has no url_tests row.
C14_EmptyBatchLeavesCompletedRun ==
  (sh.mode = "batch" /\ sh.N = 0 /\ sh.pc = "done") =>
    /\ sh.TEST_RUN_ID \in RunIds
    /\ test_runs[sh.TEST_RUN_ID].status = "COMPLETED"
    /\ test_runs[sh.TEST_RUN_ID].passed_count = 0
    /\ test_runs[sh.TEST_RUN_ID].failed_count = 0
    /\ TestsOfRun(sh.TEST_RUN_ID) = {}

\* C14 (amended): a batch over a URL list without tests never leaves a
\* COMPLETED run. When the file has no non-empty line (TOTAL = 0) no step
\* changes the database, no run id is ever held, and the script ends with
\* exit code 1. When the file has only blank lines a run may be created, it
\* never gets a url_tests row and its status never becomes COMPLETED.
C14_EmptyBatchCreatesNoCompletedRun ==
  [][ (sh.mode = "batch" /\ sh.N = 0) =>
        /\ sh.TOTAL = 0 =>
             /\ dbVars' = dbVars
             /\ sh'.TEST_RUN_ID = 0
             /\ sh'.pc = "done" => sh'.EXIT_CODE = 1
        /\ sh'.TEST_RUN_ID # 0 =>
             /\ sh'.TEST_RUN_ID \in 1..Len(test_runs')
             /\ test_runs'[sh'.TEST_RUN_ID].status # "COMPLETED"
             /\ TestsOfRunIn(url_tests', sh'.TEST_RUN_ID) = {} ]_vars

\* C14 witness: the script has ended with exit code 1 for a file without
\* any non-empty line, the database being reachable, and holds no run id.
C14_Witness ==
  /\ sh.mode = "batch"
  /\ sh.N = 0
  /\ sh.TOTAL = 0
  /\ sh.pc = "done"
  /\ sh.EXIT_CODE = 1
  /\ sh.TEST_RUN_ID = 0
  /\ dbUp

\* Directory names the url_tests rows reference (P), and the directories
\* test-history/ held when the current cleanup.js run started (D).
ReferencedDirs ==
  {extractDirNameFromPath(url_tests[t].screenshot_path) : t \in TestIds}

DirsBefore == getDirectoryNamesFromFilesystem(rec.before)

\* C15 (as claimed): a cleanup.js run that got as far as comparing the two
\* lists computed the orphans as D \ P; a dry run leaves test-history/ as it
\* was; a live run changes nothing but orphans, so no directory referenced
\* by a url_tests row is removed.
C15_DeletesOnlyOrphans ==
  (rec.pc \in {"delete", "done"} /\ rec.scanned) =>
    /\ rec.orphanedDirs = DirsBefore \ ReferencedDirs
    /\ rec.dryRun => fs = rec.before
    /\ \A d \in FsNames : fs[d] # rec.before[d] => d \in DirsBefore \ ReferencedDirs
    /\ \A d \in ReferencedDirs : fs[d] = rec.before[d]

\* The cleanup.js run before this one was live, got as far as its list of
\* orphans, and removed every directory on it.
PrevDeletedAll ==
  /\ ~rec.prev.dryRun
  /\ rec.prev.scanned
  /\ rec.prev.deletedCount = Cardinality(rec.prev.orphanedDirs)

C17_NoRowsNoDeletion ==
  (rec.pc \in {"scan", "delete", "done"} /\ ~rec.gotRows) => fs = rec.before

\* C18 (as claimed): in every state, cleanup.js running beside the URL jobs
\* included, the directory each url_tests row names in screenshot_path
\* exists and holds screenshot.png and network.har.
C18_RowsHaveArtifacts ==
  \A t \in TestIds :
    fs[extractDirNameFromPath(url_tests[t].screenshot_path)] = "full"

\* C19 (as claimed): a client whose query failed with a connection-class
\* error is usable again once the database is reachable: when
\* insertDomainTest, holding the id of the url_tests row it inserted, comes
\* to its resource_types statement with the database reachable, the rows of
\* the job's resourcesByType map are inserted.
C19_ClientUsableAfterReconnect ==
  [][ \A p \in Procs :
        ( /\ InsertReturns(p)
          /\ proc[p].pc = "types"
          /\ proc[p].id # 0
          /\ DOMAIN proc[p].meas.resourcesByType # {}
          /\ dbUp ) =>
            resource_types' =
              insertResourceTypes(resource_types, proc[p].id,
                                  proc[p].meas.resourcesByType)
    ]_vars

C21_LaterJobsCanPersist ==
  [][ \A w \in Workers :
        ( /\ proc[w].pc = "ensure"
          /\ proc'[w].pc \in {"connect", "ensured"}
          /\ dbUp ) =>
            \/ client'[w].isConnected
            \/ client'[w].attempt > 0
    ]_vars

\* Positions of the entries of a HAR file that have failed (status >= 400),
\* and the k-th of them in entry order.
FailedPositions(entries) ==
  {i \in DOMAIN entries : entries[i].response /\ entries[i].status >= 400}

KthFailed(entries, k) ==
  CHOOSE i \in FailedPositions(entries) :
    Cardinality({j \in FailedPositions(entries) : j < i}) = k - 1

\* The listing has one row per failed entry, with the claimed category.
OneRowPerFailedEntry(entries, rows) ==
  /\ Len(rows) = Cardinality(FailedPositions(entries))
  /\ \A c \in HarStatuses :
       Cardinality({k \in DOMAIN rows : rows[k].statusCode = c}) =
         Cardinality({i \in FailedPositions(entries) : entries[i].status = c})
  /\ \A k \in DOMAIN rows :
       rows[k].statusCategory =
         IF rows[k].statusCode <= 499 THEN "Client Error" ELSE "Server Error"

\* The listing is asked for with a connection, for a row that exists and
\* whose HAR file is the one that was ingested.
ListingAsked ==
  /\ call.fn = "getFailedRequestsByTestId"
  /\ call.connected
  /\ call.rowExists
  /\ call.file = call.ingested
  /\ call.file.kind = "har"

\* C22 (as claimed): the failed-request listing of a url test has one row
\* per HAR entry with status >= 400, 'Client Error' for 400..499 and 'Server
\* Error' above, and its rows are in ascending order of status code.
C22_FailedRequestsSortedByCode ==
  ListingAsked =>
    /\ OneRowPerFailedEntry(call.file.entries, call.result)
    /\ \A i, j \in DOMAIN call.result :
         i < j => call.result[i].statusCode <= call.result[j].statusCode

\* C22 (amended): when the stored histogram of the url test has a key from
\* 400 to 599, the listing has one row per HAR entry with status >= 400,
\* with the claimed categories, in HAR entry order; when it has no such key
\* the listing is empty.
C22_FailedRequestsInEntryOrder ==
  ListingAsked =>
    IF \E i \in FailedPositions(call.file.entries) :
         call.file.entries[i].status \in 400..599
    THEN /\ OneRowPerFailedEntry(call.file.entries, call.result)
         /\ \A k \in DOMAIN call.result :
              call.result[k].statusCode =
                call.file.entries[KthFailed(call.file.entries, k)].status
    ELSE call.result = << >>

\* C22 witness: the listing of a HAR whose entries are 500, 200, 404 in that
\* order is 500 then 404.
C22_Witness ==
  /\ ListingAsked
  /\ Len(call.file.entries) = 3
  /\ call.file.entries[1].status = 500
  /\ call.file.entries[2].status = 200
  /\ call.file.entries[3].status = 404
  /\ \A i \in 1..3 : call.file.entries[i].response
  /\ Len(call.result) = 2
  /\ call.result[1].statusCode = 500
  /\ call.result[2].statusCode = 404

\* Entries of a HAR file whose response.status is c.
EntriesWithStatus(entries, c) ==
  {i \in DOMAIN entries : entries[i].response /\ entries[i].status = c}

\* C23: parseHttpResponseCodes never throws; for a HAR with an entries list
\* its result has, for every status c > 0 that occurs, the key String(c)
\* with the number of entries of that status, and no other key (none for -1
\* or 0); for a file that is missing, not JSON, or without a usable entries
\* list the result is the empty map.
C23_HistogramTotalAndExact ==
  call.fn = "parseHttpResponseCodes" =>
    /\ ~call.result.threw
    /\ IF call.file.kind = "har"
       THEN /\ DOMAIN call.result.value =
                 {NumberToString(c) :
                    c \in {x \in HarStatuses :
                             x > 0 /\ EntriesWithStatus(call.file.entries, x) # {}}}
            /\ \A c \in HarStatuses :
                 NumberToString(c) \in DOMAIN call.result.value =>
                   call.result.value[NumberToString(c)] =
                     Cardinality(EntriesWithStatus(call.file.entries, c))
       ELSE call.result.value = EmptyMap

\* C23 witness: a HAR with entries of status -1, 200 and 200 gives the
\* histogram {200: 2}.
C23_Witness ==
  /\ call.fn = "parseHttpResponseCodes"
  /\ call.file.kind = "har"
  /\ Len(call.file.entries) = 3
  /\ Cardinality(EntriesWithStatus(call.file.entries, -1)) = 1
  /\ Cardinality(EntriesWithStatus(call.file.entries, 200)) = 2
  /\ call.result.value = (NumberToString(200) :> 2)

\* C24 (as claimed): a data endpoint asked while the database is unavailable
\* answers 500 with success = false; /health then reports database:
\* disconnected; and 404 is answered only when the database gave a result
\* and the entity is not in it.
C24_UnavailableDatabaseAnswers500 ==
  (call.fn = "api" /\ call.request # "none") =>
    /\ (call.request \in DataEndpoints /\ ~call.dbWasUp) =>
         /\ call.response.status = 500
         /\ ~call.response.success
    /\ (call.request = "/health" /\ ~call.dbWasUp) =>
         call.response.database = "disconnected"
    /\ call.response.status = 404 => call.dbWasUp

\* C25 (as claimed): for any urls.txt and any interleaving of the workers,
\* the directory a job creates for its artifacts is new: no other job of the
\* run has created it, so no two jobs share a directory.
C25_JobDirectoryIsNew ==
  [][ \A w \in Workers :
        (proc[w].pc = "idle" /\ proc'[w].pc = "goto") =>
          fs[proc'[w].dir] = "absent"
    ]_vars

\* C26 (as claimed): once a SIGINT during a batch run has been handled and
\* the script has ended, the run row of the batch has status FAILED.
C26_InterruptedRunIsFailed ==
  ( /\ sh.mode = "batch"
    /\ sh.pc = "done"
    /\ sh.EXIT_CODE = 130
    /\ sh.TEST_RUN_ID \in RunIds ) =>
      test_runs[sh.TEST_RUN_ID].status = "FAILED"

TimingColumns ==
  {"dns_lookup_ms", "tcp_connection_ms", "tls_negotiation_ms",
   "time_to_first_byte_ms", "response_time_ms", "dom_content_loaded_ms",
   "dom_interactive_ms", "total_page_load_ms"}

\* C27: every navigation-timing duration stored for a url test is >= 0, a
\* negative difference of the Performance API being clamped to 0 before it
\* is stored.
C27_StoredDurationsNonNegative ==
  (call.fn = "metrics" /\ call.pc = "stored")
    => \A column \in TimingColumns : call.row[column] >= 0

\* bulkInsertDomainTests was called with a connection and has returned.
BulkReturned == sh.mode = "import" /\ sh.pc = "done" /\ bulk.size > 0

\* The url_tests rows the batch added, by id.
BatchRowIds == {i \in 1..Len(url_tests) : url_tests[i] # EarlierTest}

CompleteRow(i) ==
  /\ insertHttpResponses({}, i, url_tests[i].http_response_codes)
       \subseteq http_responses
  /\ insertResourceTypes({}, i, url_tests[i].resources_by_type)
       \subseteq resource_types

\* C28: a bulk insert is all or nothing. When it has returned, either no row
\* of the batch (url test, HTTP-response row, resource-type row) is in the
\* database and the run's counters are what they were, or every test of the
\* batch is there with its rows and the returned count is the batch size.
C28_BulkInsertAllOrNothing ==
  BulkReturned =>
    \/ /\ BatchRowIds = {}
       /\ \A row \in http_responses \cup resource_types :
            row.url_test_id \notin BatchRowIds
       /\ test_runs \in {<< >>, <<EarlierRun>>}
    \/ /\ Cardinality(BatchRowIds) = bulk.size
       /\ \A i \in BatchRowIds : CompleteRow(i)
       /\ bulk.inserted = bulk.size

\* update-test-run.js has exited.
UpdateCliExited == sh.mode = "cli" /\ sh.pc = "done"

\* C29: updateTestRun returns true, and update-test-run.js exits 0, only if
\* the run row with the given id now has the given status and duration; when
\* it returns false the run rows are what they were.
C29_TrueOnlyIfRowUpdated ==
  UpdateCliExited =>
    /\ call.success <=> sh.EXIT_CODE = 0
    /\ call.success =>
         /\ sh.TEST_RUN_ID \in RunIds
         /\ test_runs[sh.TEST_RUN_ID].status = sh.STATUS
         /\ test_runs[sh.TEST_RUN_ID].duration_ms = 1
    /\ ~call.success => test_runs \in {<< >>, <<EarlierRun>>}

\* The database became reachable before the timeout and has been reachable
\* ever since.
ReachableBeforeTimeout ==
  dbUp /\ call.upSince >= 0 /\ call.upSince < timeoutSeconds

\* C30: waitForDatabase keeps attempting until it connects or the timeout
\* elapses. It returns false only if the database was unreachable for the
\* whole wait: it does not return false when the database became reachable
\* before the timeout and stayed so.
C30_FalseOnlyIfNeverReachable ==
  (call.fn = "waitForDatabase" /\ call.pc = "returned" /\ ~call.result)
    => ~ReachableBeforeTimeout

====
